---- MODULE Spec2Model ----
(***************************************************************************)
(* The sgRNA-sensor design catalog (sgrna_sensor/designs.py) together with *)
(* the Construct/Domain layer, the grammar helpers and the name parser it  *)
(* is built on.  RNA sequences and names are tuples of one-character       *)
(* strings, so slicing, splicing, rendering and parsing are computed       *)
(* base by base and character by character.                                *)
(***************************************************************************)
EXTENDS Integers, Sequences, FiniteSets, TLC

VARIABLES made, madeCall, text, parsed, mutated, mutateCall

vars == <<made, madeCall, text, parsed, mutated, mutateCall>>

(***************************************************************************)
(* Python values that reach the catalog functions: ints, strings, None.    *)
(* Every value is a record of the same shape, so that values of different  *)
(* Python types can be compared.                                           *)
(***************************************************************************)
IntV(i) == [t |-> "int", i |-> i, s |-> <<>>]

StrV(s) == [t |-> "str", i |-> 0, s |-> s]

NoneV == [t |-> "none", i |-> 0, s |-> <<>>]

IsInt(v) == v.t = "int"

IsStr(v) == v.t = "str"

Min(a, b) == IF a <= b THEN a ELSE b

Max(a, b) == IF a >= b THEN a ELSE b

(***************************************************************************)
(* Python slicing s[a:b]: negative indices count from the end, indices are *)
(* clamped to the length, and a crossed pair gives the empty sequence.     *)
(***************************************************************************)
PyIdx(i, n) == IF i < 0 THEN Max(i + n, 0) ELSE Min(i, n)

PySlice(s, a, b) ==
    LET lo == PyIdx(a, Len(s))
        hi == PyIdx(b, Len(s))
    IN  IF lo >= hi THEN <<>> ELSE SubSeq(s, lo + 1, hi)

(***************************************************************************)
(* Domain and Construct (sgrna_sensor/sequence.py).  A construct is its    *)
(* name and the 5'->3' list of its domains.  A domain attached inside      *)
(* another one splits its host in two; every piece records in `host` the   *)
(* top-level domain it lies in, so that sgrna['stem'] still spans the      *)
(* whole stem, attachment included, after an attachment into the stem.     *)
(***************************************************************************)
Domain(name, seq) ==
    [name |-> name, host |-> name, seq |-> seq, fold |-> <<>>,
     style |-> "", sites |-> "", mutable |-> FALSE]

Construct(name) == [status |-> "ok", name |-> name, doms |-> <<>>]

Raise(err) == [status |-> err, name |-> <<>>, doms |-> <<>>]

IsOk(c) == c.status = "ok"

RECURSIVE Concat(_)
Concat(ss) == IF ss = <<>> THEN <<>> ELSE Head(ss) \o Concat(Tail(ss))

\* Construct.seq: the concatenation of the domains' sequences, in order.
DomsSeq(doms) == Concat([k \in 1..Len(doms) |-> doms[k].seq])

ConstructSeq(c) == DomsSeq(c.doms)

\* Construct.__iadd__: append one domain, or all the domains of a construct.
AddDomain(c, d) == [c EXCEPT !.doms = @ \o <<d>>]

AddConstruct(c, other) == [c EXCEPT !.doms = @ \o other.doms]

\* Faulty variant: an equality that also compares the names.
ConstructEq_with_name(a, b) == ConstructSeq(a) = ConstructSeq(b) /\ a.name = b.name

\* Construct.__eq__: against another construct or a raw string, by seq only.
ConstructEq(a, b) == ConstructSeq(a) = ConstructSeq(b)

ConstructEqStr(a, str) == ConstructSeq(a) = str

\* The indices of the pieces sgrna[key] names: the pieces lying in the
\* top-level domain `key`, else the pieces of the attached domain `key`.
Pieces(doms, key) ==
    LET byHost == {k \in 1..Len(doms) : doms[k].host = key}
    IN  IF byHost # {} THEN byHost
        ELSE {k \in 1..Len(doms) : doms[k].name = key}

HasDomain(doms, key) == Pieces(doms, key) # {}

SetMin(S) == CHOOSE x \in S : \A y \in S : x <= y

SetMax(S) == CHOOSE x \in S : \A y \in S : x >= y

\* Offset of the first base of sgrna[key] in the rendered sequence.
DomainStart(doms, key) ==
    Len(DomsSeq(SubSeq(doms, 1, SetMin(Pieces(doms, key)) - 1)))

\* len(sgrna[key]) and sgrna[key].seq, attachments included.
DomainDoms(doms, key) ==
    SubSeq(doms, SetMin(Pieces(doms, key)), SetMax(Pieces(doms, key)))

DomainLen(doms, key) == Len(DomsSeq(DomainDoms(doms, key)))

DomainSeq(doms, key) == DomsSeq(DomainDoms(doms, key))

\* One piece cut to its bases [a, b); the fold annotation is cut with it.
CutPiece(d, a, b) ==
    [d EXCEPT !.seq = PySlice(d.seq, a, b),
              !.fold = IF d.fold = <<>> THEN <<>> ELSE PySlice(d.fold, a, b)]

\* The pieces holding the bases [0, n) of the rendered sequence.
RECURSIVE TakeBases(_, _)
TakeBases(doms, n) ==
    IF doms = <<>> \/ n <= 0 THEN <<>>
    ELSE IF Len(Head(doms).seq) <= n
         THEN <<Head(doms)>> \o TakeBases(Tail(doms), n - Len(Head(doms).seq))
         ELSE <<CutPiece(Head(doms), 0, n)>>

\* The pieces holding the bases from n on.
RECURSIVE DropBases(_, _)
DropBases(doms, n) ==
    IF doms = <<>> THEN <<>>
    ELSE IF n <= 0 THEN doms
    ELSE IF Len(Head(doms).seq) <= n
         THEN DropBases(Tail(doms), n - Len(Head(doms).seq))
         ELSE <<CutPiece(Head(doms), n, Len(Head(doms).seq))>> \o Tail(doms)

\* Bases [a, b) of the rendered sequence replaced by the pieces `mid`.
Splice(doms, a, b, mid) == TakeBases(doms, a) \o mid \o DropBases(doms, b)

\* The '...' position of attach().
Ellipsis == -1

\* Faulty variant: '...' is the end of the domain on either side.
attach_ellipsis_end(c, insert, domain_a, pos_a, domain_b, pos_b) ==
    IF ~IsOk(c) THEN c
    ELSE IF ~IsOk(insert) THEN Raise(insert.status)
    ELSE IF ~HasDomain(c.doms, domain_a) \/ ~HasDomain(c.doms, domain_b)
    THEN Raise("ValueError")
    ELSE
      LET a == IF pos_a = Ellipsis THEN DomainLen(c.doms, domain_a) ELSE pos_a
          b == IF pos_b = Ellipsis THEN DomainLen(c.doms, domain_b) ELSE pos_b
          cutA == DomainStart(c.doms, domain_a) + a
          cutB == DomainStart(c.doms, domain_b) + b
          mid == [k \in 1..Len(insert.doms) |->
                     [insert.doms[k] EXCEPT !.host = domain_a]]
      IN  IF a < 0 \/ a > DomainLen(c.doms, domain_a)
             \/ b < 0 \/ b > DomainLen(c.doms, domain_b)
             \/ cutA > cutB
          THEN Raise("ValueError")
          ELSE [c EXCEPT !.doms = Splice(c.doms, cutA, cutB, mid)]

\* Construct.attach(insert, domain_a, pos_a, domain_b, pos_b): '...' is the
\* start of domain_a when given as pos_a and the end of domain_b when given
\* as pos_b; the bases between the two cuts are discarded and the insert's
\* domains take their place.
attach(c, insert, domain_a, pos_a, domain_b, pos_b) ==
    IF ~IsOk(c) THEN c
    ELSE IF ~IsOk(insert) THEN Raise(insert.status)
    ELSE IF ~HasDomain(c.doms, domain_a) \/ ~HasDomain(c.doms, domain_b)
    THEN Raise("ValueError")
    ELSE
      LET a == IF pos_a = Ellipsis THEN 0 ELSE pos_a
          b == IF pos_b = Ellipsis THEN DomainLen(c.doms, domain_b) ELSE pos_b
          cutA == DomainStart(c.doms, domain_a) + a
          cutB == DomainStart(c.doms, domain_b) + b
          mid == [k \in 1..Len(insert.doms) |->
                     [insert.doms[k] EXCEPT !.host = domain_a]]
      IN  IF a < 0 \/ a > DomainLen(c.doms, domain_a)
             \/ b < 0 \/ b > DomainLen(c.doms, domain_b)
             \/ cutA > cutB
          THEN Raise("ValueError")
          ELSE [c EXCEPT !.doms = Splice(c.doms, cutA, cutB, mid)]

\* doms with piece k changed by f.
SetPiece(c, k, d) == [c EXCEPT !.doms = [@ EXCEPT ![k] = d]]

FirstPiece(c, key) == SetMin(Pieces(c.doms, key))

LastPiece(c, key) == SetMax(Pieces(c.doms, key))

\* sgrna[key].mutable = flag
SetMutable(c, key, flag) ==
    IF ~IsOk(c) THEN c
    ELSE IF ~HasDomain(c.doms, key) THEN Raise("KeyError")
    ELSE [c EXCEPT !.doms = [k \in 1..Len(c.doms) |->
            IF k \in Pieces(c.doms, key)
            THEN [c.doms[k] EXCEPT !.mutable = flag] ELSE c.doms[k]]]

\* Faulty variant: the mutable flag is not looked at.
mutate_unguarded(c, key, position, base) ==
    IF ~IsOk(c) THEN c
    ELSE IF ~HasDomain(c.doms, key) THEN Raise("KeyError")
    ELSE LET k == FirstPiece(c, key)
             d == c.doms[k]
         IN  IF position < 0 \/ position >= Len(d.seq)
             THEN Raise("IndexError")
             ELSE SetPiece(c, k, [d EXCEPT !.seq[position + 1] = base])

\* Domain.mutate(position, base) on sgrna[key], a domain without attachments.
mutate(c, key, position, base) ==
    IF ~IsOk(c) THEN c
    ELSE IF ~HasDomain(c.doms, key) THEN Raise("KeyError")
    ELSE LET k == FirstPiece(c, key)
             d == c.doms[k]
         IN  IF ~d.mutable THEN Raise("StateError")
             ELSE IF position < 0 \/ position >= Len(d.seq)
             THEN Raise("IndexError")
             ELSE SetPiece(c, k, [d EXCEPT !.seq[position + 1] = base])

\* Domain.prepend(fragment) on sgrna[key].
prepend(c, key, fragment) ==
    IF ~IsOk(c) THEN c
    ELSE IF ~HasDomain(c.doms, key) THEN Raise("KeyError")
    ELSE LET k == FirstPiece(c, key)
         IN  SetPiece(c, k, [c.doms[k] EXCEPT !.seq = fragment \o @])

\* Domain.append(fragment) on sgrna[key].
append(c, key, fragment) ==
    IF ~IsOk(c) THEN c
    ELSE IF ~HasDomain(c.doms, key) THEN Raise("KeyError")
    ELSE LET k == LastPiece(c, key)
         IN  SetPiece(c, k, [c.doms[k] EXCEPT !.seq = @ \o fragment])

\* Domain.replace(start, end, new_sequence) on sgrna[key]: bases
\* [start, end) of the domain give way to new_sequence; the fold annotation
\* of the replaced bases is dropped.
replace(c, key, start, end, new_sequence) ==
    IF ~IsOk(c) THEN c
    ELSE IF ~HasDomain(c.doms, key) THEN Raise("KeyError")
    ELSE LET off == DomainStart(c.doms, key)
             len == DomainLen(c.doms, key)
             new == [Domain(key, new_sequence) EXCEPT
                        !.style = c.doms[FirstPiece(c, key)].style,
                        !.sites = c.doms[FirstPiece(c, key)].sites]
         IN  IF start < 0 \/ end > len \/ start > end THEN Raise("ValueError")
             ELSE [c EXCEPT !.doms = Splice(@, off + start, off + end, <<new>>)]

(***************************************************************************)
(* Grammar helpers (sgrna_sensor/components.py).                           *)
(***************************************************************************)
Complement(base) ==
    CASE base = "A" -> "U"
      [] base = "U" -> "A"
      [] base = "G" -> "C"
      [] base = "C" -> "G"
      [] OTHER -> base

reverse_complement(seq) ==
    [k \in 1..Len(seq) |-> Complement(seq[Len(seq) + 1 - k])]

\* The target -> spacer registry.
KnownTargets == {<<"a","a","v","s">>}

spacer(target) ==
    IF IsStr(target) /\ target.s = <<"a","a","v","s">>
    THEN AddDomain(Construct(<<>>), Domain("spacer", <<"G","G","G","G","C","C","A","C","T","A","G","G","G","A","C","A","G","G","A","T">>))
    ELSE Raise("ValueError")

\* repeat(name, length, pattern): the first `length` bases of the pattern
\* repeated without end.
repeat(name, length, pattern) ==
    Domain(name, [k \in 1..Max(length, 0) |-> pattern[((k - 1) % Len(pattern)) + 1]])

UUUCCC == <<"U","U","U","C","C","C">>

\* The ligand -> aptamer registry: the 5' half, the natural splitter and the
\* 3' half of each aptamer.
KnownLigands == {<<"t","h","e","o">>, <<"t","e","t">>}

AptamerPieces(ligand) ==
    IF ligand = <<"t","h","e","o">>
    THEN <<<<"A","U","A","C","C","A","G","C","C">>, <<"G","A","A","A">>, <<"G","G","C","C","C","U","U","G","G","C","A","G">>>>
    ELSE <<<<"A","A","A","A","C","A","U","A","C","C">>, <<"A","G","A","U","U","U","C","G","A","U","C","U">>, <<"G","G","A","G","A","G","G","U","G","A","A","G","A","A","U","A","C","G","A","C","C","A","C","C","U">>>>

Apt5(ligand) == Domain("aptamer/5'", AptamerPieces(ligand)[1])

AptSplitter(ligand) == Domain("aptamer/splitter", AptamerPieces(ligand)[2])

Apt3(ligand) == Domain("aptamer/3'", AptamerPieces(ligand)[3])

\* aptamer(ligand, piece): piece is 'whole', '5', 'splitter' or '3'.
aptamer(ligand, piece) ==
    IF ~(IsStr(ligand) /\ ligand.s \in KnownLigands) THEN Raise("ValueError")
    ELSE LET c == Construct(<<>>)
         IN  CASE piece = "whole" ->
                    [c EXCEPT !.doms = <<Apt5(ligand.s), AptSplitter(ligand.s), Apt3(ligand.s)>>]
               [] piece = "5" -> [c EXCEPT !.doms = <<Apt5(ligand.s)>>]
               [] piece = "splitter" -> [c EXCEPT !.doms = <<AptSplitter(ligand.s)>>]
               [] piece = "3" -> [c EXCEPT !.doms = <<Apt3(ligand.s)>>]
               [] OTHER -> Raise("ValueError")

\* k copies of d.
Copies(d, k) == [j \in 1..k |-> d]

\* Faulty variant: further aptamers are appended after the first, each
\* whole and with its own splitter.
aptamer_insert_appended(ligand, linker_len, splitter_len, pattern, num_aptamers) ==
    IF ~IsOk(aptamer(ligand, "whole")) THEN aptamer(ligand, "whole")
    ELSE IF ~IsInt(num_aptamers) \/ ~IsInt(splitter_len)
            \/ ~IsInt(linker_len[1]) \/ ~IsInt(linker_len[2])
    THEN Raise("TypeError")
    ELSE
      LET k == Max(num_aptamers.i, 1)
          splitter == IF splitter_len.i # 0
                      THEN repeat("splitter", splitter_len.i, pattern)
                      ELSE AptSplitter(ligand.s)
          core == Concat(Copies(<<Apt5(ligand.s), splitter, Apt3(ligand.s)>>, k))
          l5 == IF linker_len[1].i # 0
                THEN <<repeat("linker/5'", linker_len[1].i, pattern)>> ELSE <<>>
          l3 == IF linker_len[2].i # 0
                THEN <<repeat("linker/3'", linker_len[2].i, pattern)>> ELSE <<>>
      IN  [Construct(<<>>) EXCEPT !.doms = l5 \o core \o l3]

\* aptamer_insert(ligand, linker_len, splitter_len, repeat_factory,
\* num_aptamers): further aptamers replace the splitter of the one before,
\* a requested splitter replaces the natural one, and the linkers go around
\* the whole.  linker_len is given as the pair (5' length, 3' length).
aptamer_insert(ligand, linker_len, splitter_len, pattern, num_aptamers) ==
    IF ~IsOk(aptamer(ligand, "whole")) THEN aptamer(ligand, "whole")
    ELSE IF ~IsInt(num_aptamers) \/ ~IsInt(splitter_len)
            \/ ~IsInt(linker_len[1]) \/ ~IsInt(linker_len[2])
    THEN Raise("TypeError")
    ELSE
      LET k == Max(num_aptamers.i, 1)
          splitter == IF splitter_len.i # 0
                      THEN repeat("splitter", splitter_len.i, pattern)
                      ELSE AptSplitter(ligand.s)
          core == Copies(Apt5(ligand.s), k) \o <<splitter>> \o Copies(Apt3(ligand.s), k)
          l5 == IF linker_len[1].i # 0
                THEN <<repeat("linker/5'", linker_len[1].i, pattern)>> ELSE <<>>
          l3 == IF linker_len[2].i # 0
                THEN <<repeat("linker/3'", linker_len[2].i, pattern)>> ELSE <<>>
      IN  [Construct(<<>>) EXCEPT !.doms = l5 \o core \o l3]

TuningStrategies == {<<>>, <<"w","o">>}

\* Index (from 0) of the occurrence of `base` nearest the middle of seq, the
\* 5' one of two equally near; -1 when there is none.
find_middlemost(seq, base) ==
    LET hits == {k \in 1..Len(seq) : seq[k] = base}
        dist(k) == IF 2 * k - 1 >= Len(seq) THEN 2 * k - 1 - Len(seq)
                   ELSE Len(seq) - (2 * k - 1)
    IN  IF hits = {} THEN -1
        ELSE (CHOOSE k \in hits :
                \A j \in hits : dist(k) < dist(j) \/ (dist(k) = dist(j) /\ k <= j)) - 1

\* tunable_switch(target_seq, tuning_strategy): the 'switch' domain pairs
\* with the target, 'on' and 'off' repeat it; 'wo' weakens the on state by
\* turning the middlemost A of 'on' into a G (a G-U wobble pair).
tunable_switch(target_seq, tuning_strategy) ==
    IF ~(IsStr(tuning_strategy) /\ tuning_strategy.s \in TuningStrategies)
    THEN <<Raise("ValueError"), Raise("ValueError"), Raise("ValueError")>>
    ELSE
      LET i == find_middlemost(target_seq, "A")
          on == IF tuning_strategy.s = <<"w","o">> /\ i >= 0
                THEN [target_seq EXCEPT ![i + 1] = "G"] ELSE target_seq
          one(name, seq) == AddDomain(Construct(<<>>), Domain(name, seq))
      IN  <<one("switch", reverse_complement(target_seq)),
            one("on", on), one("off", target_seq)>>

\* The domains of the switch, the aptamer insert and the 'on' strand, in the
\* order the target end asks for; any failed part fails the whole.
SwitchParts(parts) ==
    IF \E k \in 1..Len(parts) : ~IsOk(parts[k])
    THEN Raise(parts[SetMin({k \in 1..Len(parts) : ~IsOk(parts[k])})].status)
    ELSE [Construct(<<>>) EXCEPT
            !.doms = Concat([k \in 1..Len(parts) |-> parts[k].doms])]

TurnDomain(turn_seq) ==
    IF turn_seq = <<>> THEN Construct(<<>>)
    ELSE AddDomain(Construct(<<>>), Domain("turn", turn_seq))

\* serpentine_insert(ligand, target_seq, target_end, tuning_strategy,
\* turn_seq, num_aptamers): on - aptamer - switch - turn for a target on the
\* 3' side, turn - switch - aptamer - on for a target on the 5' side.
serpentine_insert(ligand, target_seq, target_end, tuning_strategy, turn_seq, num_aptamers) ==
    LET sw == tunable_switch(target_seq, tuning_strategy)
        apt == aptamer_insert(ligand, <<IntV(0), IntV(0)>>, IntV(0), UUUCCC, num_aptamers)
    IN  IF target_seq = <<>> THEN Raise("ValueError")
        ELSE IF target_end = "3"
        THEN SwitchParts(<<sw[2], apt, sw[1], TurnDomain(turn_seq)>>)
        ELSE IF target_end = "5"
        THEN SwitchParts(<<TurnDomain(turn_seq), sw[1], apt, sw[2]>>)
        ELSE Raise("ValueError")

\* circle_insert(ligand, target_seq, target_end, tuning_strategy,
\* num_aptamers): switch - aptamer - on for a target on the 3' side,
\* on - aptamer - switch for a target on the 5' side.
circle_insert(ligand, target_seq, target_end, tuning_strategy, num_aptamers) ==
    LET sw == tunable_switch(target_seq, tuning_strategy)
        apt == aptamer_insert(ligand, <<IntV(0), IntV(0)>>, IntV(0), UUUCCC, num_aptamers)
    IN  IF target_seq = <<>> THEN Raise("ValueError")
        ELSE IF target_end = "3" THEN SwitchParts(<<sw[1], apt, sw[2]>>)
        ELSE IF target_end = "5" THEN SwitchParts(<<sw[2], apt, sw[1]>>)
        ELSE Raise("ValueError")

\* hammerhead_insert(ligand, mode, num_aptamers): the aptamer between the
\* two strands of the ribozyme.  The ribozyme's bases are not part of the
\* catalog; each strand is rendered as one placeholder base.
hammerhead_insert(ligand, mode, num_aptamers) ==
    SwitchParts(<<AddDomain(Construct(<<>>), Domain("hammerhead/5'", <<"N">>)),
                  aptamer_insert(ligand, <<IntV(0), IntV(0)>>, IntV(0), UUUCCC, num_aptamers),
                  AddDomain(Construct(<<>>), Domain("hammerhead/3'", <<"N">>))>>)

(***************************************************************************)
(* Names.  str(x) of an argument, character by character.                  *)
(***************************************************************************)
DigitChars == <<"0", "1", "2", "3", "4", "5", "6", "7", "8", "9">>

RECURSIVE NatStr(_)
NatStr(n) ==
    IF n < 10 THEN <<DigitChars[n + 1]>>
    ELSE NatStr(n \div 10) \o <<DigitChars[(n % 10) + 1]>>

IntStr(n) == IF n < 0 THEN <<"-">> \o NatStr(0 - n) ELSE NatStr(n)

PyStr(v) ==
    CASE v.t = "int" -> IntStr(v.i)
      [] v.t = "str" -> v.s
      [] OTHER -> <<"N","o","n","e">>

RECURSIVE Join(_, _)
Join(ss, sep) ==
    IF ss = <<>> THEN <<>>
    ELSE IF Len(ss) = 1 THEN ss[1]
    ELSE ss[1] \o sep \o Join(Tail(ss), sep)

(***************************************************************************)
(* The catalog's signatures (the def lines of designs.py) and its          *)
(* abbreviation table.                                                     *)
(***************************************************************************)
Req(name) == [name |-> name, req |-> TRUE, def |-> NoneV]

Opt(name, def) == [name |-> name, req |-> FALSE, def |-> def]

LigandTarget == <<Opt("ligand", StrV(<<"t","h","e","o">>)), Opt("target", StrV(<<"a","a","v","s">>))>>

TuningA == <<Opt("tuning_strategy", StrV(<<>>)), Opt("A", IntV(1))>>

\* Faulty variant: linker_len defaulting to 1.
fold_upper_stem_params_linker1 ==
    <<Req("N"), Opt("linker_len", IntV(1)), Opt("splitter_len", IntV(0)),
      Opt("num_aptamers", IntV(1))>> \o LigandTarget

fold_upper_stem_params ==
    <<Req("N"), Opt("linker_len", IntV(0)), Opt("splitter_len", IntV(0)),
      Opt("num_aptamers", IntV(1))>> \o LigandTarget

fold_lower_stem_params ==
    <<Req("N"), Opt("linker_len", IntV(0)), Opt("splitter_len", IntV(0))>>
    \o LigandTarget

Signature(f) ==
    CASE f = "wt_sgrna" -> <<Opt("target", NoneV)>>
      [] f = "dead_sgrna" -> <<Opt("target", NoneV)>>
      [] f = "fold_upper_stem" -> fold_upper_stem_params
      [] f = "fold_lower_stem" -> fold_lower_stem_params
      [] f = "fold_nexus" -> <<Opt("linker_len", IntV(0))>> \o LigandTarget
      [] f = "fold_nexus_2" ->
            <<Req("N"), Req("M"), Opt("splitter_len", IntV(0)),
              Opt("num_aptamers", IntV(1))>> \o LigandTarget
      [] f = "fold_hairpin" -> <<Req("H"), Req("N"), Opt("A", IntV(1))>> \o LigandTarget
      [] f = "replace_hairpins" -> <<Req("N")>> \o LigandTarget
      [] f = "induce_dimerization" ->
            <<Req("half"), Req("N"), Opt("target", StrV(<<"a","a","v","s">>)),
              Opt("ligand", StrV(<<"t","h","e","o">>))>>
      [] f = "serpentine_bulge" -> <<Req("N")>> \o TuningA \o LigandTarget
      [] f = "serpentine_lower_stem" -> TuningA \o LigandTarget
      [] f = "serpentine_lower_stem_around_nexus" -> TuningA \o LigandTarget
      [] f = "serpentine_hairpin" -> <<Req("N")>> \o TuningA \o LigandTarget
      [] f = "circle_bulge" -> TuningA \o LigandTarget
      [] f = "circle_bulge_combo" ->
            <<Req("tuning_strategy"), Req("combo_strategy"), Opt("combo_arg", NoneV),
              Opt("A", IntV(1))>> \o LigandTarget
      [] f = "circle_lower_stem" -> TuningA \o LigandTarget
      [] f = "circle_hairpin" -> <<Req("N")>> \o TuningA \o LigandTarget
      [] f = "hammerhead_upper_stem" -> <<Req("mode"), Opt("A", IntV(1))>> \o LigandTarget
      [] f = "hammerhead_nexus" -> <<Req("mode"), Opt("A", IntV(1))>> \o LigandTarget
      [] f = "hammerhead_hairpin" -> <<Req("mode"), Opt("A", IntV(1))>> \o LigandTarget
      [] OTHER -> <<>>

\* Faulty variant: the table without its last binding, hh.
abbreviations_without_hh ==
    { <<<<"w","t">>, "wt_sgrna">>, <<<<"d","e","a","d">>, "dead_sgrna">>,
      <<<<"f","u">>, "fold_upper_stem">>, <<<<"u","s">>, "fold_upper_stem">>,
      <<<<"f","l">>, "fold_lower_stem">>, <<<<"l","s">>, "fold_lower_stem">>,
      <<<<"f","x">>, "fold_nexus">>, <<<<"n","x">>, "fold_nexus">>,
      <<<<"f","x","x">>, "fold_nexus_2">>, <<<<"n","x","x">>, "fold_nexus_2">>,
      <<<<"f","h">>, "fold_hairpin">>,
      <<<<"h","p">>, "replace_hairpins">>,
      <<<<"i","d">>, "induce_dimerization">>,
      <<<<"s","b">>, "serpentine_bulge">>,
      <<<<"s","l">>, "serpentine_lower_stem">>,
      <<<<"s","l","x">>, "serpentine_lower_stem_around_nexus">>,
      <<<<"s","h">>, "serpentine_hairpin">>,
      <<<<"c","b">>, "circle_bulge">>,
      <<<<"c","b","c">>, "circle_bulge_combo">>,
      <<<<"c","l">>, "circle_lower_stem">>,
      <<<<"c","h">>, "circle_hairpin">>,
      <<<<"h","u">>, "hammerhead_upper_stem">>,
      <<<<"h","x">>, "hammerhead_nexus">> }

\* The module-level bindings that end designs.py.
abbreviations ==
    { <<<<"w","t">>, "wt_sgrna">>, <<<<"d","e","a","d">>, "dead_sgrna">>,
      <<<<"f","u">>, "fold_upper_stem">>, <<<<"u","s">>, "fold_upper_stem">>,
      <<<<"f","l">>, "fold_lower_stem">>, <<<<"l","s">>, "fold_lower_stem">>,
      <<<<"f","x">>, "fold_nexus">>, <<<<"n","x">>, "fold_nexus">>,
      <<<<"f","x","x">>, "fold_nexus_2">>, <<<<"n","x","x">>, "fold_nexus_2">>,
      <<<<"f","h">>, "fold_hairpin">>,
      <<<<"h","p">>, "replace_hairpins">>,
      <<<<"i","d">>, "induce_dimerization">>,
      <<<<"s","b">>, "serpentine_bulge">>,
      <<<<"s","l">>, "serpentine_lower_stem">>,
      <<<<"s","l","x">>, "serpentine_lower_stem_around_nexus">>,
      <<<<"s","h">>, "serpentine_hairpin">>,
      <<<<"c","b">>, "circle_bulge">>,
      <<<<"c","b","c">>, "circle_bulge_combo">>,
      <<<<"c","l">>, "circle_lower_stem">>,
      <<<<"c","h">>, "circle_hairpin">>,
      <<<<"h","u">>, "hammerhead_upper_stem">>,
      <<<<"h","x">>, "hammerhead_nexus">>,
      <<<<"h","h">>, "hammerhead_hairpin">> }

IsAbbreviation(abbr) == \E p \in abbreviations : p[1] = abbr

Resolve(abbr) == (CHOOSE p \in abbreviations : p[1] = abbr)[2]

\* make_name(abbreviation, *args): the abbreviation alone, or followed by
\* the arguments in parentheses, comma separated; trailing arguments that
\* have their declared default value are left out.
RECURSIVE TrimDefaults(_, _)
TrimDefaults(sig, args) ==
    IF args = <<>> \/ Len(args) > Len(sig) THEN args
    ELSE IF ~sig[Len(args)].req /\ sig[Len(args)].def = args[Len(args)]
    THEN TrimDefaults(sig, SubSeq(args, 1, Len(args) - 1))
    ELSE args

make_name(abbr, args) ==
    LET sig == IF IsAbbreviation(abbr) THEN Signature(Resolve(abbr)) ELSE <<>>
        kept == TrimDefaults(sig, args)
    IN  IF kept = <<>> THEN abbr
        ELSE abbr \o <<"(">> \o Join([k \in 1..Len(kept) |-> PyStr(kept[k])], <<",">>)
                  \o <<")">>

SetName(c, name) == IF IsOk(c) THEN [c EXCEPT !.name = name] ELSE c

SetFold(c, key, fold) == SetPiece(c, FirstPiece(c, key), [c.doms[FirstPiece(c, key)] EXCEPT !.fold = fold])

SetStyle(c, key, style) == SetPiece(c, FirstPiece(c, key), [c.doms[FirstPiece(c, key)] EXCEPT !.style = style])

SetSites(c, key, sites) == SetPiece(c, FirstPiece(c, key), [c.doms[FirstPiece(c, key)] EXCEPT !.sites = sites])

(***************************************************************************)
(* The design catalog (sgrna_sensor/designs.py).                           *)
(***************************************************************************)
STEM == <<"G","U","U","U","U","A","G","A","G","C","U","A","G","A","A","A","U","A","G","C","A","A","G","U","U","A","A","A","A","U">>

NEXUS == <<"A","A","G","G","C","U","A","G","U","C","C","G","U">>

HAIRPINS == <<"U","A","U","C","A","A","C","U","U","G","A","A","A","A","A","G","U","G","G","C","A","C","C","G","A","G","U","C","G","G","U","G","C">>

TAIL == <<"U","U","U","U","U","U">>

\* Faulty variant: hairpins added before the nexus.
wt_domains_swapped ==
    <<Domain("stem", STEM), Domain("hairpins", HAIRPINS),
      Domain("nexus", NEXUS), Domain("tail", TAIL)>>

wt_domains ==
    <<Domain("stem", STEM), Domain("nexus", NEXUS),
      Domain("hairpins", HAIRPINS), Domain("tail", TAIL)>>

\* Faulty variant: the stem annotation one character short.
wt_annotate_short_fold(c) ==
    LET f1 == SetFold(c, "stem", <<"(","(","(","(","(","(",".",".","(","(","(","(",".",".",".",".",")",")",")",")",".",".",".",".",")",")",")",")",")">>)
        f2 == SetFold(f1, "hairpins", <<".",".",".",".",".","(","(","(","(",".",".",".",".",")",")",")",")",".","(","(","(","(","(","(",".",".",".",")",")",")",")",")",")">>)
        s1 == SetStyle(f2, "stem", "green")
        s2 == SetStyle(s1, "nexus", "red")
        s3 == SetStyle(s2, "hairpins", "blue")
        a1 == SetSites(s3, "stem", "anywhere")
        a2 == SetSites(a1, "nexus", "anywhere")
    IN  SetSites(a2, "hairpins", "anywhere")

\* wt_sgrna's annotations of the domains it has just added.
wt_annotate(c) ==
    LET f1 == SetFold(c, "stem", <<"(","(","(","(","(","(",".",".","(","(","(","(",".",".",".",".",")",")",")",")",".",".",".",".",")",")",")",")",")",")">>)
        f2 == SetFold(f1, "hairpins", <<".",".",".",".",".","(","(","(","(",".",".",".",".",")",")",")",")",".","(","(","(","(","(","(",".",".",".",")",")",")",")",")",")">>)
        s1 == SetStyle(f2, "stem", "green")
        s2 == SetStyle(s1, "nexus", "red")
        s3 == SetStyle(s2, "hairpins", "blue")
        a1 == SetSites(s3, "stem", "anywhere")
        a2 == SetSites(a1, "nexus", "anywhere")
    IN  SetSites(a2, "hairpins", "anywhere")

wt_sgrna(target) ==
    LET sgrna == Construct(<<"w","t">>)
        sp == IF target # NoneV THEN spacer(target) ELSE Construct(<<>>)
    IN  IF ~IsOk(sp) THEN Raise(sp.status)
        ELSE wt_annotate([sgrna EXCEPT !.doms = sp.doms \o wt_domains])

\* Faulty variant: the mutations one base further on.
dead_sgrna_shifted(target) ==
    LET sgrna == SetName(wt_sgrna(target), <<"d","e","a","d">>)
        m0 == SetMutable(sgrna, "nexus", TRUE)
        m1 == mutate(m0, "nexus", 3, "C")
        m2 == mutate(m1, "nexus", 4, "C")
    IN  SetMutable(m2, "nexus", FALSE)

dead_sgrna(target) ==
    LET sgrna == SetName(wt_sgrna(target), <<"d","e","a","d">>)
        m0 == SetMutable(sgrna, "nexus", TRUE)
        m1 == mutate(m0, "nexus", 2, "C")
        m2 == mutate(m1, "nexus", 3, "C")
    IN  SetMutable(m2, "nexus", FALSE)

\* The us/nxx choice of the arguments that go into the name.
NameArgs4(a, b, splitter_len, num_aptamers) ==
    IF num_aptamers # IntV(1) THEN <<a, b, splitter_len, num_aptamers>>
    ELSE IF splitter_len # IntV(0) THEN <<a, b, splitter_len>>
    ELSE <<a, b>>

\* Faulty variant: the attachment ends at stem 20 whatever N is.
fold_upper_stem_fixed_end(N, linker_len, splitter_len, num_aptamers, ligand, target) ==
    IF ~IsInt(N) THEN Raise("TypeError")
    ELSE IF ~(0 <= N.i /\ N.i <= 4) THEN Raise("ValueError")
    ELSE
      LET args == NameArgs4(N, linker_len, splitter_len, num_aptamers)
          sgrna == SetName(wt_sgrna(target), make_name(<<"u","s">>, args))
      IN  attach(sgrna,
                 aptamer_insert(ligand, <<linker_len, linker_len>>, splitter_len,
                                UUUCCC, num_aptamers),
                 "stem", 8 + N.i, "stem", 20)

\* Faulty variant: the range test lets N = 5 through.
fold_upper_stem_accepts_5(N, linker_len, splitter_len, num_aptamers, ligand, target) ==
    IF ~IsInt(N) THEN Raise("TypeError")
    ELSE IF ~(0 <= N.i /\ N.i <= 5) THEN Raise("ValueError")
    ELSE
      LET args == NameArgs4(N, linker_len, splitter_len, num_aptamers)
          sgrna == SetName(wt_sgrna(target), make_name(<<"u","s">>, args))
      IN  attach(sgrna,
                 aptamer_insert(ligand, <<linker_len, linker_len>>, splitter_len,
                                UUUCCC, num_aptamers),
                 "stem", 8 + N.i, "stem", 20 - N.i)

fold_upper_stem(N, linker_len, splitter_len, num_aptamers, ligand, target) ==
    IF ~IsInt(N) THEN Raise("TypeError")
    ELSE IF ~(0 <= N.i /\ N.i <= 4) THEN Raise("ValueError")
    ELSE
      LET args == NameArgs4(N, linker_len, splitter_len, num_aptamers)
          sgrna == SetName(wt_sgrna(target), make_name(<<"u","s">>, args))
      IN  attach(sgrna,
                 aptamer_insert(ligand, <<linker_len, linker_len>>, splitter_len,
                                UUUCCC, num_aptamers),
                 "stem", 8 + N.i, "stem", 20 - N.i)

fold_lower_stem(N, linker_len, splitter_len, ligand, target) ==
    IF ~IsInt(N) THEN Raise("TypeError")
    ELSE IF ~(0 <= N.i /\ N.i <= 6) THEN Raise("ValueError")
    ELSE
      LET args == IF splitter_len # IntV(0) THEN <<N, linker_len, splitter_len>>
                  ELSE <<N, linker_len>>
          sgrna == SetName(wt_sgrna(target), make_name(<<"l","s">>, args))
      IN  attach(sgrna,
                 aptamer_insert(ligand, <<linker_len, linker_len>>, splitter_len,
                                UUUCCC, IntV(1)),
                 "stem", 0 + N.i, "stem", 30 - N.i)

fold_nexus(linker_len, ligand, target) ==
    LET sgrna == SetName(wt_sgrna(target), make_name(<<"n","x">>, <<linker_len>>))
    IN  attach(sgrna,
               aptamer_insert(ligand, <<linker_len, linker_len>>, IntV(0),
                              <<"U">>, IntV(1)),
               "nexus", 4, "nexus", 9)

\* Faulty variant: a splitter of the natural length is let through.
fold_nexus_2_short_splitter(N, M, splitter_len, num_aptamers, ligand, target) ==
    LET min_splitter_len == Len(ConstructSeq(aptamer(StrV(<<"t","h","e","o">>), "splitter")))
    IN  IF ~IsInt(N) \/ ~IsInt(M) \/ ~IsInt(splitter_len) \/ ~IsInt(num_aptamers)
        THEN Raise("TypeError")
        ELSE IF ~(0 <= N.i /\ N.i <= 4) THEN Raise("ValueError")
        ELSE IF ~(0 <= M.i /\ M.i <= 5) THEN Raise("ValueError")
        ELSE IF 0 < splitter_len.i /\ splitter_len.i < min_splitter_len
        THEN Raise("ValueError")
        ELSE IF num_aptamers.i < 1 THEN Raise("ValueError")
        ELSE
          LET args == NameArgs4(N, M, splitter_len, num_aptamers)
              sgrna == SetName(wt_sgrna(target), make_name(<<"n","x","x">>, args))
          IN  attach(sgrna,
                     aptamer_insert(ligand, <<IntV(0), IntV(0)>>, splitter_len,
                                    UUUCCC, num_aptamers),
                     "nexus", 2 + N.i, "nexus", 11 - M.i)

\* Faulty variant: the attachment starts one base further on, at 3 + N.
fold_nexus_2_late_start(N, M, splitter_len, num_aptamers, ligand, target) ==
    LET min_splitter_len == Len(ConstructSeq(aptamer(StrV(<<"t","h","e","o">>), "splitter")))
    IN  IF ~IsInt(N) \/ ~IsInt(M) \/ ~IsInt(splitter_len) \/ ~IsInt(num_aptamers)
        THEN Raise("TypeError")
        ELSE IF ~(0 <= N.i /\ N.i <= 4) THEN Raise("ValueError")
        ELSE IF ~(0 <= M.i /\ M.i <= 5) THEN Raise("ValueError")
        ELSE IF 0 < splitter_len.i /\ splitter_len.i <= min_splitter_len
        THEN Raise("ValueError")
        ELSE IF num_aptamers.i < 1 THEN Raise("ValueError")
        ELSE
          LET args == NameArgs4(N, M, splitter_len, num_aptamers)
              sgrna == SetName(wt_sgrna(target), make_name(<<"n","x","x">>, args))
          IN  attach(sgrna,
                     aptamer_insert(ligand, <<IntV(0), IntV(0)>>, splitter_len,
                                    UUUCCC, num_aptamers),
                     "nexus", 3 + N.i, "nexus", 11 - M.i)

fold_nexus_2(N, M, splitter_len, num_aptamers, ligand, target) ==
    LET min_splitter_len == Len(ConstructSeq(aptamer(StrV(<<"t","h","e","o">>), "splitter")))
    IN  IF ~IsInt(N) \/ ~IsInt(M) \/ ~IsInt(splitter_len) \/ ~IsInt(num_aptamers)
        THEN Raise("TypeError")
        ELSE IF ~(0 <= N.i /\ N.i <= 4) THEN Raise("ValueError")
        ELSE IF ~(0 <= M.i /\ M.i <= 5) THEN Raise("ValueError")
        ELSE IF 0 < splitter_len.i /\ splitter_len.i <= min_splitter_len
        THEN Raise("ValueError")
        ELSE IF num_aptamers.i < 1 THEN Raise("ValueError")
        ELSE
          LET args == NameArgs4(N, M, splitter_len, num_aptamers)
              sgrna == SetName(wt_sgrna(target), make_name(<<"n","x","x">>, args))
          IN  attach(sgrna,
                     aptamer_insert(ligand, <<IntV(0), IntV(0)>>, splitter_len,
                                    UUUCCC, num_aptamers),
                     "nexus", 2 + N.i, "nexus", 11 - M.i)

\* Faulty variant: N may reach 6 in either hairpin.
fold_hairpin_wide(H, N, A, ligand, target) ==
    IF H \notin {IntV(1), IntV(2)} THEN Raise("ValueError")
    ELSE IF ~IsInt(N) THEN Raise("TypeError")
    ELSE
      LET max_N == 6
      IN  IF ~(0 <= N.i /\ N.i <= max_N) THEN Raise("ValueError")
          ELSE
            LET sgrna == SetName(wt_sgrna(target), make_name(<<"f","h">>, <<H, N>>))
            IN  attach(sgrna,
                       aptamer_insert(ligand, <<IntV(0), IntV(0)>>, IntV(0), UUUCCC, A),
                       "hairpins", IF H = IntV(1) THEN 5 + N.i ELSE 18 + N.i,
                       "hairpins", IF H = IntV(1) THEN 17 - N.i ELSE 33 - N.i)

fold_hairpin(H, N, A, ligand, target) ==
    IF H \notin {IntV(1), IntV(2)} THEN Raise("ValueError")
    ELSE IF ~IsInt(N) THEN Raise("TypeError")
    ELSE
      LET max_N == IF H = IntV(1) THEN 4 ELSE 6
      IN  IF ~(0 <= N.i /\ N.i <= max_N) THEN Raise("ValueError")
          ELSE
            LET sgrna == SetName(wt_sgrna(target), make_name(<<"f","h">>, <<H, N>>))
            IN  attach(sgrna,
                       aptamer_insert(ligand, <<IntV(0), IntV(0)>>, IntV(0), UUUCCC, A),
                       "hairpins", IF H = IntV(1) THEN 5 + N.i ELSE 18 + N.i,
                       "hairpins", IF H = IntV(1) THEN 17 - N.i ELSE 33 - N.i)

\* Faulty variant: the linker is put on both sides of the aptamer.
replace_hairpins_linker_both(N, ligand, target) ==
    LET design == SetName(wt_sgrna(target), make_name(<<"h","p">>, <<N>>))
    IN  IF ~IsOk(design) THEN design
        ELSE IF ~IsInt(N) THEN Raise("TypeError")
        ELSE
          LET domain_len == DomainLen(design.doms, "hairpins")
              insertion_site == Min(N.i, domain_len)
              linker_len == <<IntV(Max(0, N.i - domain_len)),
                              IntV(Max(0, N.i - domain_len))>>
          IN  attach(design,
                     aptamer_insert(ligand, linker_len, IntV(0), UUUCCC, IntV(1)),
                     "hairpins", insertion_site, "hairpins", Ellipsis)

replace_hairpins(N, ligand, target) ==
    LET design == SetName(wt_sgrna(target), make_name(<<"h","p">>, <<N>>))
    IN  IF ~IsOk(design) THEN design
        ELSE IF ~IsInt(N) THEN Raise("TypeError")
        ELSE
          LET domain_len == DomainLen(design.doms, "hairpins")
              insertion_site == Min(N.i, domain_len)
              linker_len == <<IntV(Max(0, N.i - domain_len)), IntV(0)>>
          IN  attach(design,
                     aptamer_insert(ligand, linker_len, IntV(0), UUUCCC, IntV(1)),
                     "hairpins", insertion_site, "hairpins", Ellipsis)

\* int(N) of a Python value: an int is itself, a string of digits is parsed.
IsDigit(ch) == \E k \in 1..10 : DigitChars[k] = ch

DigitVal(ch) == (CHOOSE k \in 1..10 : DigitChars[k] = ch) - 1

RECURSIVE ParseNat(_)
ParseNat(s) ==
    IF s = <<>> THEN 0
    ELSE 10 * ParseNat(SubSeq(s, 1, Len(s) - 1)) + DigitVal(s[Len(s)])

AllDigits(s) == s # <<>> /\ \A k \in 1..Len(s) : IsDigit(s[k])

\* Faulty variant: a half that is neither 5 nor 3 returns the empty design.
induce_dimerization_any_half(half, N, target, ligand) ==
    LET halfStr == PyStr(half)
    IN  IF N = NoneV THEN Raise("TypeError")
        ELSE IF IsStr(N) /\ ~AllDigits(N.s) THEN Raise("ValueError")
        ELSE
          LET n == IF IsInt(N) THEN N.i ELSE ParseNat(N.s)
          IN  IF ~(0 <= n /\ n <= 4) THEN Raise("ValueError")
              ELSE
                LET design == SetName(Construct(<<>>),
                                      make_name(<<"i","d">>, <<StrV(halfStr), IntV(n)>>))
                    wt == wt_sgrna(target)
                IN  IF ~IsOk(wt) THEN wt
                    ELSE IF halfStr = <<"5">>
                    THEN attach([design EXCEPT !.doms =
                                    SelectSeq(wt.doms, LAMBDA d : d.name \in {"spacer", "stem"})],
                                aptamer(ligand, "5"),
                                "stem", 8 + n, "stem", Ellipsis)
                    ELSE IF halfStr = <<"3">>
                    THEN attach(AddConstruct(design, wt),
                                aptamer(ligand, "3"),
                                "stem", Ellipsis, "stem", 20 - n)
                    ELSE design

induce_dimerization(half, N, target, ligand) ==
    LET halfStr == PyStr(half)
    IN  IF N = NoneV THEN Raise("TypeError")
        ELSE IF IsStr(N) /\ ~AllDigits(N.s) THEN Raise("ValueError")
        ELSE
          LET n == IF IsInt(N) THEN N.i ELSE ParseNat(N.s)
          IN  IF ~(0 <= n /\ n <= 4) THEN Raise("ValueError")
              ELSE
                LET design == SetName(Construct(<<>>),
                                      make_name(<<"i","d">>, <<StrV(halfStr), IntV(n)>>))
                    wt == wt_sgrna(target)
                IN  IF ~IsOk(wt) THEN wt
                    ELSE IF halfStr = <<"5">>
                    THEN attach([design EXCEPT !.doms =
                                    SelectSeq(wt.doms, LAMBDA d : d.name \in {"spacer", "stem"})],
                                aptamer(ligand, "5"),
                                "stem", 8 + n, "stem", Ellipsis)
                    ELSE IF halfStr = <<"3">>
                    THEN attach(AddConstruct(design, wt),
                                aptamer(ligand, "3"),
                                "stem", Ellipsis, "stem", 20 - n)
                    ELSE Raise("ValueError")

\* Faulty variant: the range test lets N = 1 through.
serpentine_bulge_accepts_1(N, tuning_strategy, A, ligand, target) ==
    IF ~IsInt(N) THEN Raise("TypeError")
    ELSE IF N.i < 1 THEN Raise("ValueError")
    ELSE
      LET sgrna == SetName(wt_sgrna(target), make_name(<<"s","b">>, <<N, tuning_strategy>>))
          att == attach(sgrna,
                        serpentine_insert(ligand,
                            PySlice(DomainSeq(wt_sgrna(NoneV).doms, "stem"), 22, 22 + N.i),
                            "3", tuning_strategy, <<"G","A","A","A">>, A),
                        "stem", 8, "stem", 22)
      IN  prepend(att, "on", <<"U","C">>)

serpentine_bulge(N, tuning_strategy, A, ligand, target) ==
    IF ~IsInt(N) THEN Raise("TypeError")
    ELSE IF N.i < 2 THEN Raise("ValueError")
    ELSE
      LET sgrna == SetName(wt_sgrna(target), make_name(<<"s","b">>, <<N, tuning_strategy>>))
          att == attach(sgrna,
                        serpentine_insert(ligand,
                            PySlice(DomainSeq(wt_sgrna(NoneV).doms, "stem"), 22, 22 + N.i),
                            "3", tuning_strategy, <<"G","A","A","A">>, A),
                        "stem", 8, "stem", 22)
      IN  prepend(att, "on", <<"U","C">>)

serpentine_lower_stem(tuning_strategy, A, ligand, target) ==
    LET sgrna == SetName(wt_sgrna(target), make_name(<<"s","l">>, <<tuning_strategy>>))
        att == attach(sgrna,
                      serpentine_insert(ligand, <<"G","G","C","U">>, "3", tuning_strategy,
                                        <<"G","A","A","A">>, A),
                      "stem", 0, "nexus", 2)
    IN  prepend(append(prepend(att, "on", <<"U","C">>), "on", <<"G","A">>), "switch", <<"A","A","G","U">>)

serpentine_lower_stem_around_nexus(tuning_strategy, A, ligand, target) ==
    LET sgrna == SetName(wt_sgrna(target), make_name(<<"s","l","x">>, <<tuning_strategy>>))
        att == attach(sgrna,
                      serpentine_insert(ligand, <<"G","U","U","A","U","C">>, "3", tuning_strategy,
                                        <<>>, A),
                      "stem", Ellipsis, "stem", Ellipsis)
    IN  prepend(append(att, "on", <<"G","A">>), "switch", <<"A","A","G","U">>)

serpentine_hairpin(N, tuning_strategy, A, ligand, target) ==
    IF ~IsInt(N) THEN Raise("TypeError")
    ELSE IF ~(4 <= N.i /\ N.i <= 14) THEN Raise("ValueError")
    ELSE
      LET sgrna == SetName(wt_sgrna(target), make_name(<<"s","h">>, <<N, tuning_strategy>>))
      IN  attach(sgrna,
                 serpentine_insert(ligand,
                     PySlice(ConstructSeq(wt_sgrna(NoneV)), 44 - N.i, 44),
                     "5", tuning_strategy, <<"A","U","C","A">>, A),
                 "hairpins", 1, "hairpins", 17)

\* Faulty variant: the ligand is not handed to circle_insert.
circle_bulge_theo_only(tuning_strategy, A, ligand, target) ==
    LET sgrna == SetName(wt_sgrna(target), make_name(<<"c","b">>, <<tuning_strategy>>))
    IN  attach(sgrna,
               circle_insert(StrV(<<"t","h","e","o">>), <<"A","A","G","U">>, "3", tuning_strategy, A),
               "stem", 6, "stem", 20)

circle_bulge(tuning_strategy, A, ligand, target) ==
    LET sgrna == SetName(wt_sgrna(target), make_name(<<"c","b">>, <<tuning_strategy>>))
    IN  attach(sgrna,
               circle_insert(ligand, <<"A","A","G","U">>, "3", tuning_strategy, A),
               "stem", 6, "stem", 20)

\* Python truth value of an argument, for `combo_arg or 'wo'`.
Truthy(v) == (v.t = "int" /\ v.i # 0) \/ (v.t = "str" /\ v.s # <<>>)

\* Faulty variant: the 'slx' branch writes the switch over the head of the
\* stem and the 'on' strand over its end.
circle_bulge_combo_swapped(tuning_strategy, combo_strategy, combo_arg, A, ligand, target) ==
    LET sgrna == SetName(circle_bulge(tuning_strategy, IntV(1), StrV(<<"t","h","e","o">>), StrV(<<"a","a","v","s">>)),
                         make_name(<<"c","b">>, <<tuning_strategy, combo_strategy, combo_arg>>))
    IN  IF ~IsOk(sgrna) THEN sgrna
        ELSE IF combo_strategy = StrV(<<"s","l","x">>)
        THEN
          LET L == DomainLen(sgrna.doms, "stem")
              sw == tunable_switch(<<"G","U","U","A","U","C">>,
                                   IF Truthy(combo_arg) THEN combo_arg ELSE StrV(<<"w","o">>))
          IN  IF ~IsOk(sw[1]) THEN sw[1]
              ELSE LET r1 == replace(sgrna, "stem", 0, 6, ConstructSeq(sw[1]))
                   IN  replace(r1, "stem", L - 6, L, ConstructSeq(sw[2]))
        ELSE IF combo_strategy = StrV(<<"s","h">>)
        THEN
          IF combo_arg = NoneV THEN Raise("ValueError")
          ELSE IF ~IsInt(combo_arg) THEN Raise("TypeError")
          ELSE attach(sgrna,
                      serpentine_insert(ligand,
                          PySlice(ConstructSeq(wt_sgrna(NoneV)), 44 - combo_arg.i, 44),
                          "5", StrV(<<>>), <<"A","U","C","A">>, A),
                      "hairpins", 1, "hairpins", 17)
        ELSE Raise("NameError")

\* Faulty variant: the 'sh' branch tunes its switch with the tuning strategy
\* of the circle bulge.
circle_bulge_combo_sh_tuned(tuning_strategy, combo_strategy, combo_arg, A, ligand, target) ==
    LET sgrna == SetName(circle_bulge(tuning_strategy, IntV(1), StrV(<<"t","h","e","o">>), StrV(<<"a","a","v","s">>)),
                         make_name(<<"c","b">>, <<tuning_strategy, combo_strategy, combo_arg>>))
    IN  IF ~IsOk(sgrna) THEN sgrna
        ELSE IF combo_strategy = StrV(<<"s","l","x">>)
        THEN
          LET L == DomainLen(sgrna.doms, "stem")
              sw == tunable_switch(<<"G","U","U","A","U","C">>,
                                   IF Truthy(combo_arg) THEN combo_arg ELSE StrV(<<"w","o">>))
          IN  IF ~IsOk(sw[1]) THEN sw[1]
              ELSE LET r1 == replace(sgrna, "stem", 0, 6, ConstructSeq(sw[2]))
                   IN  replace(r1, "stem", L - 6, L, ConstructSeq(sw[1]))
        ELSE IF combo_strategy = StrV(<<"s","h">>)
        THEN
          IF combo_arg = NoneV THEN Raise("ValueError")
          ELSE IF ~IsInt(combo_arg) THEN Raise("TypeError")
          ELSE attach(sgrna,
                      serpentine_insert(ligand,
                          PySlice(ConstructSeq(wt_sgrna(NoneV)), 44 - combo_arg.i, 44),
                          "5", tuning_strategy, <<"A","U","C","A">>, A),
                      "hairpins", 1, "hairpins", 17)
        ELSE Raise("NameError")

circle_bulge_combo(tuning_strategy, combo_strategy, combo_arg, A, ligand, target) ==
    LET sgrna == SetName(circle_bulge(tuning_strategy, IntV(1), StrV(<<"t","h","e","o">>), StrV(<<"a","a","v","s">>)),
                         make_name(<<"c","b">>, <<tuning_strategy, combo_strategy, combo_arg>>))
    IN  IF ~IsOk(sgrna) THEN sgrna
        ELSE IF combo_strategy = StrV(<<"s","l","x">>)
        THEN
          LET L == DomainLen(sgrna.doms, "stem")
              sw == tunable_switch(<<"G","U","U","A","U","C">>,
                                   IF Truthy(combo_arg) THEN combo_arg ELSE StrV(<<"w","o">>))
          IN  IF ~IsOk(sw[1]) THEN sw[1]
              ELSE LET r1 == replace(sgrna, "stem", 0, 6, ConstructSeq(sw[2]))
                   IN  replace(r1, "stem", L - 6, L, ConstructSeq(sw[1]))
        ELSE IF combo_strategy = StrV(<<"s","h">>)
        THEN
          IF combo_arg = NoneV THEN Raise("ValueError")
          ELSE IF ~IsInt(combo_arg) THEN Raise("TypeError")
          ELSE attach(sgrna,
                      serpentine_insert(ligand,
                          PySlice(ConstructSeq(wt_sgrna(NoneV)), 44 - combo_arg.i, 44),
                          "5", StrV(<<>>), <<"A","U","C","A">>, A),
                      "hairpins", 1, "hairpins", 17)
        ELSE Raise("NameError")

circle_lower_stem(tuning_strategy, A, ligand, target) ==
    LET sgrna == SetName(wt_sgrna(target), make_name(<<"c","l">>, <<tuning_strategy>>))
        att == attach(sgrna,
                      circle_insert(ligand, <<"A","A","G","G","C","U">>, "3", tuning_strategy, A),
                      "stem", 0, "stem", Ellipsis)
    IN  prepend(append(att, "switch", <<"G","A">>), "on", <<"A","A","G","U">>)

circle_hairpin(N, tuning_strategy, A, ligand, target) ==
    IF ~IsInt(N) THEN Raise("TypeError")
    ELSE
      LET sgrna == SetName(wt_sgrna(target), make_name(<<"c","h">>, <<N, tuning_strategy>>))
      IN  attach(sgrna,
                 circle_insert(ligand,
                     PySlice(ConstructSeq(wt_sgrna(NoneV)), 48 - N.i, 48),
                     "5", tuning_strategy, A),
                 "hairpins", 5, "hairpins", 17)

hammerhead_upper_stem(mode, A, ligand, target) ==
    LET sgrna == SetName(wt_sgrna(target), make_name(<<"h","u">>, <<mode>>))
    IN  attach(sgrna, hammerhead_insert(ligand, mode, A), "stem", 8, "stem", 20)

hammerhead_nexus(mode, A, ligand, target) ==
    LET sgrna == SetName(wt_sgrna(target), make_name(<<"h","x">>, <<mode>>))
    IN  attach(sgrna, hammerhead_insert(ligand, mode, A), "nexus", 2, "nexus", 11)

hammerhead_hairpin(mode, A, ligand, target) ==
    LET sgrna == SetName(wt_sgrna(target), make_name(<<"h","h">>, <<mode>>))
    IN  attach(sgrna, hammerhead_insert(ligand, mode, A), "hairpins", 5, "hairpins", 17)

(***************************************************************************)
(* Calling a catalog function with positional and keyword arguments.       *)
(***************************************************************************)
Absent == [t |-> "absent", i |-> 0, s |-> <<>>]

NoKw == [ligand |-> Absent, target |-> Absent]

KwOf(kw, name) ==
    IF name = "ligand" THEN kw.ligand
    ELSE IF name = "target" THEN kw.target
    ELSE Absent

SigHas(sig, name) == \E k \in 1..Len(sig) : sig[k].name = name

\* Python's binding of the arguments of a call to the parameters: too many
\* positional arguments, a keyword that is no parameter or is also given by
\* position, and a required parameter left without a value are TypeErrors.
BindFails(sig, pos, kw) ==
    \/ Len(pos) > Len(sig)
    \/ \E k \in (Len(pos) + 1)..Len(sig) : sig[k].req /\ KwOf(kw, sig[k].name) = Absent
    \/ \E k \in 1..Min(Len(pos), Len(sig)) : KwOf(kw, sig[k].name) # Absent
    \/ (kw.ligand # Absent /\ ~SigHas(sig, "ligand"))
    \/ (kw.target # Absent /\ ~SigHas(sig, "target"))

Bind(sig, pos, kw) ==
    [k \in 1..Len(sig) |->
        IF k <= Len(pos) THEN pos[k]
        ELSE IF KwOf(kw, sig[k].name) # Absent THEN KwOf(kw, sig[k].name)
        ELSE sig[k].def]

Apply(f, v) ==
    CASE f = "wt_sgrna" -> wt_sgrna(v[1])
      [] f = "dead_sgrna" -> dead_sgrna(v[1])
      [] f = "fold_upper_stem" -> fold_upper_stem(v[1], v[2], v[3], v[4], v[5], v[6])
      [] f = "fold_lower_stem" -> fold_lower_stem(v[1], v[2], v[3], v[4], v[5])
      [] f = "fold_nexus" -> fold_nexus(v[1], v[2], v[3])
      [] f = "fold_nexus_2" -> fold_nexus_2(v[1], v[2], v[3], v[4], v[5], v[6])
      [] f = "fold_hairpin" -> fold_hairpin(v[1], v[2], v[3], v[4], v[5])
      [] f = "replace_hairpins" -> replace_hairpins(v[1], v[2], v[3])
      [] f = "induce_dimerization" -> induce_dimerization(v[1], v[2], v[3], v[4])
      [] f = "serpentine_bulge" -> serpentine_bulge(v[1], v[2], v[3], v[4], v[5])
      [] f = "serpentine_lower_stem" -> serpentine_lower_stem(v[1], v[2], v[3], v[4])
      [] f = "serpentine_lower_stem_around_nexus" ->
            serpentine_lower_stem_around_nexus(v[1], v[2], v[3], v[4])
      [] f = "serpentine_hairpin" -> serpentine_hairpin(v[1], v[2], v[3], v[4], v[5])
      [] f = "circle_bulge" -> circle_bulge(v[1], v[2], v[3], v[4])
      [] f = "circle_bulge_combo" ->
            circle_bulge_combo(v[1], v[2], v[3], v[4], v[5], v[6])
      [] f = "circle_lower_stem" -> circle_lower_stem(v[1], v[2], v[3], v[4])
      [] f = "circle_hairpin" -> circle_hairpin(v[1], v[2], v[3], v[4], v[5])
      [] f = "hammerhead_upper_stem" -> hammerhead_upper_stem(v[1], v[2], v[3], v[4])
      [] f = "hammerhead_nexus" -> hammerhead_nexus(v[1], v[2], v[3], v[4])
      [] f = "hammerhead_hairpin" -> hammerhead_hairpin(v[1], v[2], v[3], v[4])
      [] OTHER -> Raise("ValueError")

\* f(*pos, **kw)
Call(f, pos, kw) ==
    IF BindFails(Signature(f), pos, kw) THEN Raise("TypeError")
    ELSE Apply(f, Bind(Signature(f), pos, kw))

(***************************************************************************)
(* The name parser, from_name.                                             *)
(***************************************************************************)
\* Faulty variant: the underscore is no delimiter.
Delimiters_no_underscore == {",", "/", "-", " ", "(", ")"}

Delimiters == {",", "/", "-", "_", " ", "(", ")"}

\* The tokens of a name: the maximal runs of characters that are not
\* delimiters.
RECURSIVE Tokenize(_, _)
Tokenize(s, cur) ==
    IF s = <<>> THEN (IF cur = <<>> THEN <<>> ELSE <<cur>>)
    ELSE IF Head(s) \in Delimiters
    THEN (IF cur = <<>> THEN <<>> ELSE <<cur>>) \o Tokenize(Tail(s), <<>>)
    ELSE Tokenize(Tail(s), cur \o <<Head(s)>>)

Tokens(name) == Tokenize(name, <<>>)

\* An argument token becomes an int when it is one, else stays a string.
Coerce(token) == IF AllDigits(token) THEN IntV(ParseNat(token)) ELSE StrV(token)

LigandPrefixes == {<<"t","h","e","o">>, <<"t","e","t">>}

from_name(name) ==
    IF name = <<>> THEN Raise("ValueError")
    ELSE
      LET all == Tokens(name)
          prefixed == Len(all) >= 2 /\ all[1] \in LigandPrefixes
          toks == IF prefixed THEN Tail(all) ELSE all
          kw == IF prefixed THEN [NoKw EXCEPT !.ligand = StrV(all[1])] ELSE NoKw
      IN  IF toks = <<>> THEN Raise("ValueError")
          ELSE IF ~IsAbbreviation(toks[1]) THEN Raise("ValueError")
          ELSE Call(Resolve(toks[1]),
                    [k \in 1..(Len(toks) - 1) |-> Coerce(toks[k + 1])], kw)

(***************************************************************************)
(* The state machine: a script makes one catalog call (made), and parses   *)
(* one name with from_name (parsed): the name of the construct just made,  *)
(* or a name written by hand.                                              *)
(***************************************************************************)
NoConstruct == [status |-> "none", name |-> <<>>, doms |-> <<>>]

NoCall == [f |-> "", pos |-> <<>>, kw |-> NoKw]

NoMutate == [key |-> "", open |-> FALSE, position |-> 0, base |-> ""]

\* Bounds of the arguments tried.
Below == 1

MaxN == 7

MaxLong == 15

MaxLinker == 1

MaxSplitter == 5

MaxAptamers == 3

HpSpan == 1

MaxPosition == 13

Ns == {IntV(n) : n \in (0 - Below)..MaxN}

LongNs == {IntV(n) : n \in (0 - Below)..MaxLong}

HpNs == {IntV(0), IntV(18), IntV(39)} \cup {IntV(n) : n \in (33 - HpSpan)..(33 + HpSpan)}

Linkers == {IntV(n) : n \in 0..MaxLinker}

Splitters == {IntV(n) : n \in 0..MaxSplitter}

Aptamers == {IntV(n) : n \in 0..MaxAptamers}

Tunings == {StrV(<<>>), StrV(<<"w","o">>)}

Modes == {StrV(<<"o","n">>), StrV(<<"o","f","f">>)}

Halves == {IntV(5), IntV(3), StrV(<<"5">>), StrV(<<"3">>), IntV(0), StrV(<<"h","e","l","l","o">>)}

Kws == {NoKw, [NoKw EXCEPT !.target = NoneV], [NoKw EXCEPT !.ligand = StrV(<<"t","e","t">>)]}

Init ==
    /\ made = NoConstruct
    /\ madeCall = NoCall
    /\ text = <<>>
    /\ parsed = NoConstruct
    /\ mutated = NoConstruct
    /\ mutateCall = NoMutate

\* The parameter values of the direct call f(*pos, **kw).
Args(f, pos, kw) == Bind(Signature(f), pos, kw)

\* The script has made no call yet.
Idle == made.status = "none" /\ parsed.status = "none"

\* What the direct call f(*pos, **kw) returns or raises, `result` being what
\* f gives when the arguments bind to its parameters.
Returned(f, pos, kw, result) ==
    IF BindFails(Signature(f), pos, kw) THEN Raise("TypeError") ELSE result

TheCall(f, pos, kw) == [f |-> f, pos |-> pos, kw |-> kw]

Call_wt_sgrna ==
    \E pos \in {<<>>} \cup {<<t>> : t \in {NoneV, StrV(<<"a","a","v","s">>)}} :
        LET v == Args("wt_sgrna", pos, NoKw)
        IN  /\ Idle
            /\ made' = Returned("wt_sgrna", pos, NoKw, wt_sgrna(v[1]))
            /\ madeCall' = TheCall("wt_sgrna", pos, NoKw)
            /\ UNCHANGED <<text, parsed, mutated, mutateCall>>

Call_dead_sgrna ==
    \E pos \in {<<>>} \cup {<<t>> : t \in {NoneV, StrV(<<"a","a","v","s">>)}} :
        LET v == Args("dead_sgrna", pos, NoKw)
        IN  /\ Idle
            /\ made' = Returned("dead_sgrna", pos, NoKw, dead_sgrna(v[1]))
            /\ madeCall' = TheCall("dead_sgrna", pos, NoKw)
            /\ UNCHANGED <<text, parsed, mutated, mutateCall>>

Call_fold_upper_stem ==
    \E pos \in {<<N>> : N \in Ns}
               \cup {<<N, L>> : N \in Ns, L \in Linkers \cup {IntV(7), StrV(<<"h","e","l","l","o">>)}}
               \cup {<<N, L, S>> : N \in {IntV(0), IntV(4)}, L \in Linkers, S \in Splitters}
               \cup {<<N, IntV(0), IntV(0), A>> : N \in Ns, A \in Aptamers},
       kw \in Kws :
        LET v == Args("fold_upper_stem", pos, kw)
        IN  /\ Idle
            /\ made' = Returned("fold_upper_stem", pos, kw, fold_upper_stem(v[1], v[2], v[3], v[4], v[5], v[6]))
            /\ madeCall' = TheCall("fold_upper_stem", pos, kw)
            /\ UNCHANGED <<text, parsed, mutated, mutateCall>>

Call_fold_lower_stem ==
    \E pos \in {<<N>> : N \in Ns}
               \cup {<<N, L>> : N \in Ns, L \in Linkers \cup {StrV(<<"h","e","l","l","o">>)}}
               \cup {<<N, L, S>> : N \in {IntV(0), IntV(6)}, L \in Linkers, S \in Splitters},
       kw \in Kws :
        LET v == Args("fold_lower_stem", pos, kw)
        IN  /\ Idle
            /\ made' = Returned("fold_lower_stem", pos, kw, fold_lower_stem(v[1], v[2], v[3], v[4], v[5]))
            /\ madeCall' = TheCall("fold_lower_stem", pos, kw)
            /\ UNCHANGED <<text, parsed, mutated, mutateCall>>

Call_fold_nexus ==
    \E pos \in {<<>>} \cup {<<L>> : L \in Linkers}, kw \in Kws :
        LET v == Args("fold_nexus", pos, kw)
        IN  /\ Idle
            /\ made' = Returned("fold_nexus", pos, kw, fold_nexus(v[1], v[2], v[3]))
            /\ madeCall' = TheCall("fold_nexus", pos, kw)
            /\ UNCHANGED <<text, parsed, mutated, mutateCall>>

Call_fold_nexus_2 ==
    \E pos \in {<<N, M>> : N \in Ns, M \in Ns}
               \cup {<<N, N, S, A>> : N \in {IntV(0), IntV(2)}, S \in Splitters, A \in Aptamers},
       kw \in Kws :
        LET v == Args("fold_nexus_2", pos, kw)
        IN  /\ Idle
            /\ made' = Returned("fold_nexus_2", pos, kw, fold_nexus_2(v[1], v[2], v[3], v[4], v[5], v[6]))
            /\ madeCall' = TheCall("fold_nexus_2", pos, kw)
            /\ UNCHANGED <<text, parsed, mutated, mutateCall>>

Call_fold_hairpin ==
    \E pos \in {<<H, N>> : H \in {IntV(h) : h \in 0..3}, N \in Ns}
               \cup {<<H, N, A>> : H \in {IntV(1), IntV(2)}, N \in Ns, A \in Aptamers},
       kw \in Kws :
        LET v == Args("fold_hairpin", pos, kw)
        IN  /\ Idle
            /\ made' = Returned("fold_hairpin", pos, kw, fold_hairpin(v[1], v[2], v[3], v[4], v[5]))
            /\ madeCall' = TheCall("fold_hairpin", pos, kw)
            /\ UNCHANGED <<text, parsed, mutated, mutateCall>>

Call_replace_hairpins ==
    \E pos \in {<<N>> : N \in HpNs}, kw \in Kws :
        LET v == Args("replace_hairpins", pos, kw)
        IN  /\ Idle
            /\ made' = Returned("replace_hairpins", pos, kw, replace_hairpins(v[1], v[2], v[3]))
            /\ madeCall' = TheCall("replace_hairpins", pos, kw)
            /\ UNCHANGED <<text, parsed, mutated, mutateCall>>

Call_induce_dimerization ==
    \E pos \in {<<h, N>> : h \in Halves, N \in Ns \cup {StrV(<<"h","e","l","l","o">>), StrV(<<"2">>)}}, kw \in Kws :
        LET v == Args("induce_dimerization", pos, kw)
        IN  /\ Idle
            /\ made' = Returned("induce_dimerization", pos, kw, induce_dimerization(v[1], v[2], v[3], v[4]))
            /\ madeCall' = TheCall("induce_dimerization", pos, kw)
            /\ UNCHANGED <<text, parsed, mutated, mutateCall>>

Call_serpentine_bulge ==
    \E pos \in {<<N>> : N \in LongNs}
               \cup {<<N, StrV(<<>>), A>> : N \in Ns, A \in Aptamers},
       kw \in Kws :
        LET v == Args("serpentine_bulge", pos, kw)
        IN  /\ Idle
            /\ made' = Returned("serpentine_bulge", pos, kw, serpentine_bulge(v[1], v[2], v[3], v[4], v[5]))
            /\ madeCall' = TheCall("serpentine_bulge", pos, kw)
            /\ UNCHANGED <<text, parsed, mutated, mutateCall>>

Call_serpentine_lower_stem ==
    \E pos \in {<<>>} \cup {<<StrV(<<>>), A>> : A \in Aptamers}, kw \in Kws :
        LET v == Args("serpentine_lower_stem", pos, kw)
        IN  /\ Idle
            /\ made' = Returned("serpentine_lower_stem", pos, kw, serpentine_lower_stem(v[1], v[2], v[3], v[4]))
            /\ madeCall' = TheCall("serpentine_lower_stem", pos, kw)
            /\ UNCHANGED <<text, parsed, mutated, mutateCall>>

Call_serpentine_lower_stem_around_nexus ==
    \E pos \in {<<>>} \cup {<<t>> : t \in Tunings}
               \cup {<<t, A>> : t \in Tunings, A \in Aptamers},
       kw \in Kws :
        LET v == Args("serpentine_lower_stem_around_nexus", pos, kw)
        IN  /\ Idle
            /\ made' = Returned("serpentine_lower_stem_around_nexus", pos, kw, serpentine_lower_stem_around_nexus(v[1], v[2], v[3], v[4]))
            /\ madeCall' = TheCall("serpentine_lower_stem_around_nexus", pos, kw)
            /\ UNCHANGED <<text, parsed, mutated, mutateCall>>

Call_serpentine_hairpin ==
    \E pos \in {<<N>> : N \in LongNs}
               \cup {<<N, StrV(<<>>), A>> : N \in {IntV(4)}, A \in Aptamers},
       kw \in Kws :
        LET v == Args("serpentine_hairpin", pos, kw)
        IN  /\ Idle
            /\ made' = Returned("serpentine_hairpin", pos, kw, serpentine_hairpin(v[1], v[2], v[3], v[4], v[5]))
            /\ madeCall' = TheCall("serpentine_hairpin", pos, kw)
            /\ UNCHANGED <<text, parsed, mutated, mutateCall>>

Call_circle_bulge ==
    \E pos \in {<<>>} \cup {<<t>> : t \in Tunings}
               \cup {<<t, A>> : t \in Tunings, A \in Aptamers},
       kw \in Kws :
        LET v == Args("circle_bulge", pos, kw)
        IN  /\ Idle
            /\ made' = Returned("circle_bulge", pos, kw, circle_bulge(v[1], v[2], v[3], v[4]))
            /\ madeCall' = TheCall("circle_bulge", pos, kw)
            /\ UNCHANGED <<text, parsed, mutated, mutateCall>>

Call_circle_bulge_combo ==
    \E pos \in {<<t, s>> : t \in Tunings, s \in {StrV(<<"s","l","x">>), StrV(<<"s","h">>), StrV(<<"x","x">>)}}
               \cup {<<t, StrV(<<"s","l","x">>), a>> : t \in Tunings, a \in Tunings}
               \cup {<<t, StrV(<<"s","h">>), N>> : t \in Tunings, N \in LongNs}
               \cup {<<t, StrV(<<"s","h">>), IntV(5), A>> : t \in Tunings, A \in Aptamers},
       kw \in Kws :
        LET v == Args("circle_bulge_combo", pos, kw)
        IN  /\ Idle
            /\ made' = Returned("circle_bulge_combo", pos, kw, circle_bulge_combo(v[1], v[2], v[3], v[4], v[5], v[6]))
            /\ madeCall' = TheCall("circle_bulge_combo", pos, kw)
            /\ UNCHANGED <<text, parsed, mutated, mutateCall>>

Call_circle_lower_stem ==
    \E pos \in {<<>>} \cup {<<t>> : t \in Tunings}
               \cup {<<t, A>> : t \in Tunings, A \in Aptamers},
       kw \in Kws :
        LET v == Args("circle_lower_stem", pos, kw)
        IN  /\ Idle
            /\ made' = Returned("circle_lower_stem", pos, kw, circle_lower_stem(v[1], v[2], v[3], v[4]))
            /\ madeCall' = TheCall("circle_lower_stem", pos, kw)
            /\ UNCHANGED <<text, parsed, mutated, mutateCall>>

Call_circle_hairpin ==
    \E pos \in {<<N>> : N \in LongNs}
               \cup {<<N, StrV(<<>>), A>> : N \in {IntV(4)}, A \in Aptamers},
       kw \in Kws :
        LET v == Args("circle_hairpin", pos, kw)
        IN  /\ Idle
            /\ made' = Returned("circle_hairpin", pos, kw, circle_hairpin(v[1], v[2], v[3], v[4], v[5]))
            /\ madeCall' = TheCall("circle_hairpin", pos, kw)
            /\ UNCHANGED <<text, parsed, mutated, mutateCall>>

Call_hammerhead_upper_stem ==
    \E pos \in {<<m>> : m \in Modes}, kw \in Kws :
        LET v == Args("hammerhead_upper_stem", pos, kw)
        IN  /\ Idle
            /\ made' = Returned("hammerhead_upper_stem", pos, kw, hammerhead_upper_stem(v[1], v[2], v[3], v[4]))
            /\ madeCall' = TheCall("hammerhead_upper_stem", pos, kw)
            /\ UNCHANGED <<text, parsed, mutated, mutateCall>>

Call_hammerhead_nexus ==
    \E pos \in {<<m>> : m \in Modes}, kw \in Kws :
        LET v == Args("hammerhead_nexus", pos, kw)
        IN  /\ Idle
            /\ made' = Returned("hammerhead_nexus", pos, kw, hammerhead_nexus(v[1], v[2], v[3], v[4]))
            /\ madeCall' = TheCall("hammerhead_nexus", pos, kw)
            /\ UNCHANGED <<text, parsed, mutated, mutateCall>>

Call_hammerhead_hairpin ==
    \E pos \in {<<m>> : m \in Modes}, kw \in Kws :
        LET v == Args("hammerhead_hairpin", pos, kw)
        IN  /\ Idle
            /\ made' = Returned("hammerhead_hairpin", pos, kw, hammerhead_hairpin(v[1], v[2], v[3], v[4]))
            /\ madeCall' = TheCall("hammerhead_hairpin", pos, kw)
            /\ UNCHANGED <<text, parsed, mutated, mutateCall>>

(***************************************************************************)
(* The names parsed.  A name is written from its tokens in one of the      *)
(* surface syntaxes: 'us(4,0)', 'us(4, 0)', 'us 4 0', 'us/4/0', 'us-4-0',  *)
(* 'us_4_0'.                                                               *)
(***************************************************************************)
Syntaxes == {"call", "call-space", "space", "slash", "dash", "underscore"}

Separator(syntax) ==
    CASE syntax = "space" -> <<" ">>
      [] syntax = "slash" -> <<"/">>
      [] syntax = "dash" -> <<"-">>
      [] syntax = "underscore" -> <<"_">>
      [] syntax = "call-space" -> <<",", " ">>
      [] OTHER -> <<",">>

Written(tokens, syntax) ==
    IF syntax \in {"call", "call-space"}
    THEN IF Len(tokens) = 1 THEN tokens[1]
         ELSE tokens[1] \o <<"(">> \o Join(Tail(tokens), Separator(syntax)) \o <<")">>
    ELSE Join(tokens, Separator(syntax))

\* The token lists written in every syntax: us and ls with one and two
\* arguments.
StemTokens ==
    {<<a, NatStr(n)>> : a \in {<<"u","s">>, <<"l","s">>}, n \in 0..MaxN}
    \cup {<<a, NatStr(n), NatStr(l)>> : a \in {<<"u","s">>, <<"l","s">>}, n \in 0..MaxN, l \in 0..MaxLinker}

\* Names written by hand: the names of the test suite next to constructs,
\* every abbreviation on its own, and names that are no design.
FixtureNames ==
    {<<"c","b">>, <<"c","b","/","w","o">>, <<"t","h","e","o","/","c","b">>, <<"t","e","t","/","c","b">>, <<"w","t">>, <<"d","e","a","d">>,
     <<"n","x","(","0",")">>, <<"n","x","x","(","2",",","2",")">>, <<"f","h","(","2",",","0",")">>, <<"h","p","(","1","8",")">>}

\* Every name bound at the end of designs.py, written without arguments.
BareNames ==
    {<<"w","t">>, <<"d","e","a","d">>, <<"f","u">>, <<"u","s">>, <<"f","l">>, <<"l","s">>, <<"f","x">>, <<"n","x">>, <<"f","x","x">>, <<"n","x","x">>,
     <<"f","h">>, <<"h","p">>, <<"i","d">>, <<"s","b">>, <<"s","l">>, <<"s","l","x">>, <<"s","h">>, <<"c","b">>, <<"c","b","c">>, <<"c","l">>,
     <<"c","h">>, <<"h","u">>, <<"h","x">>, <<"h","h">>, <<"t","7">>, <<"t","h">>}

OtherNames ==
    {<<>>, <<"n","o","s","u","c","h","d","e","s","i","g","n">>, <<"f","o","l","d","_","u","p","p","e","r","_","s","t","e","m">>, <<"u","s">>, <<"(",")">>, <<"t","h","e","o">>, <<"t","e","t">>,
     <<"c","b","c","/","w","o","/","s","l","x","/","w","o">>, <<"c","b","c","/","w","o","/","s","h","/","5">>, <<"t","e","t","/","u","s","(","4",")">>, <<"t","h","e","o","/","u","s","(","4",")">>, <<"t","e","t","/","w","t">>,
     <<"w","t","/","1","/","2">>, <<"i","d","(","5",",","0",")">>, <<"i","d","(","3",",","h","e","l","l","o",")">>, <<"u","s","(","h","e","l","l","o",")">>, <<"z","z","(","4",")">>,
     <<"r","b","(","4",",","8",")">>, <<"r","b","(","5",",","7",")">>, <<"r","b","(","6",",","6",")">>}
    \cup BareNames
    \cup {l \o <<"/">> \o d : l \in LigandPrefixes, d \in {<<"s","l">>, <<"s","l","x">>, <<"c","l">>, <<"f","h","(","1",",","0",")">>, <<"n","x">>}}

InputNames ==
    {Written(toks, syn) : toks \in StemTokens, syn \in Syntaxes}
    \cup FixtureNames \cup OtherNames

\* The names the script may parse: any name written by hand when nothing
\* was made, else the name of the construct made or a test-suite name to
\* compare with it.
NamesToParse ==
    IF made.status = "none" THEN InputNames
    ELSE IF IsOk(made) THEN {made.name} \cup FixtureNames
    ELSE {}

\* Faulty variant: a name already made is not parsed again, the construct
\* made under it is handed back.
FromName_cached ==
    /\ parsed.status = "none"
    /\ \E t \in NamesToParse :
        /\ text' = t
        /\ parsed' = IF IsOk(made) /\ t = made.name THEN made ELSE from_name(t)
    /\ UNCHANGED <<made, madeCall, mutated, mutateCall>>

\* from_name(t)
FromName ==
    /\ parsed.status = "none"
    /\ \E t \in NamesToParse :
        /\ text' = t
        /\ parsed' = from_name(t)
    /\ UNCHANGED <<made, madeCall, mutated, mutateCall>>

\* The domains a script tries to mutate and the bases it writes.
MutatedKeys == {"nexus", "hairpins", "tail"}

Bases == {"A", "C"}

\* sgrna[key].mutable = True (or not), then sgrna[key].mutate(position, base),
\* on a wildtype or dead sgRNA the script has made.
Mutate ==
    /\ IsOk(made)
    /\ madeCall.f \in {"wt_sgrna", "dead_sgrna"}
    /\ parsed.status = "none"
    /\ mutated.status = "none"
    /\ \E key \in MutatedKeys, open \in BOOLEAN, position \in 0..MaxPosition, base \in Bases :
        /\ mutated' = mutate(IF open THEN SetMutable(made, key, TRUE) ELSE made,
                             key, position, base)
        /\ mutateCall' = [key |-> key, open |-> open, position |-> position, base |-> base]
    /\ UNCHANGED <<made, madeCall, text, parsed>>

Next ==
    \/ Call_wt_sgrna
    \/ Call_dead_sgrna
    \/ Call_fold_upper_stem
    \/ Call_fold_lower_stem
    \/ Call_fold_nexus
    \/ Call_fold_nexus_2
    \/ Call_fold_hairpin
    \/ Call_replace_hairpins
    \/ Call_induce_dimerization
    \/ Call_serpentine_bulge
    \/ Call_serpentine_lower_stem
    \/ Call_serpentine_lower_stem_around_nexus
    \/ Call_serpentine_hairpin
    \/ Call_circle_bulge
    \/ Call_circle_bulge_combo
    \/ Call_circle_lower_stem
    \/ Call_circle_hairpin
    \/ Call_hammerhead_upper_stem
    \/ Call_hammerhead_nexus
    \/ Call_hammerhead_hairpin
    \/ Mutate
    \/ FromName

Spec == Init /\ [][Next]_vars

(***************************************************************************)
(* Properties.                                                             *)
(***************************************************************************)
\* The parameter values of the call that made `made`.
MadeArgs == Args(madeCall.f, madeCall.pos, madeCall.kw)

\* The call that made `made` bound its arguments to the parameters.
MadeBound ==
    /\ madeCall.f # ""
    /\ ~BindFails(Signature(madeCall.f), madeCall.pos, madeCall.kw)

DomainNames(c) == [k \in 1..Len(c.doms) |-> c.doms[k].name]

WT_SEQ ==
    <<"G","U","U","U","U","A","G","A","G","C","U","A","G","A","A","A","U","A","G","C","A","A","G","U","U","A","A","A","A","U">> \o <<"A","A","G","G","C","U","A","G","U","C","C","G","U">>
    \o <<"U","A","U","C","A","A","C","U","U","G","A","A","A","A","A","G","U","G","G","C","A","C","C","G","A","G","U","C","G","G","U","G","C">> \o <<"U","U","U","U","U","U">>

\* C1: round trip through the canonical name. Whenever a catalog call has
\* returned a construct and from_name has parsed that construct's name, the
\* parse succeeds and gives the same sequence as the call.
RoundTrip ==
    (IsOk(made) /\ parsed.status # "none" /\ text = made.name)
        => (IsOk(parsed) /\ ConstructSeq(parsed) = ConstructSeq(made))

DeadMutation ==
    (madeCall.f = "dead_sgrna" /\ MadeBound) =>
        LET w == wt_sgrna(MadeArgs[1])
        IN  /\ IsOk(made)
            /\ made.name = <<"d","e","a","d">>
            /\ DomainNames(made) = DomainNames(w)
            /\ \A k \in 1..Len(w.doms) :
                /\ Len(made.doms[k].seq) = Len(w.doms[k].seq)
                /\ \A i \in 1..Len(w.doms[k].seq) :
                    made.doms[k].seq[i] =
                        IF w.doms[k].name = "nexus" /\ i \in {3, 4} THEN "C"
                        ELSE w.doms[k].seq[i]
            /\ MadeArgs[1] = NoneV =>
                ConstructSeq(made) =
                    <<"G","U","U","U","U","A","G","A","G","C","U","A","G","A","A","A","U","A","G","C","A","A","G","U","U","A","A","A","A","U">> \o <<"A","A","C","C","C","U","A","G","U","C","C","G","U">>
                    \o <<"U","A","U","C","A","A","C","U","U","G","A","A","A","A","A","G","U","G","G","C","A","C","C","G","A","G","U","C","G","G","U","G","C">> \o <<"U","U","U","U","U","U">>

DeadMade ==
    /\ madeCall.f = "dead_sgrna"
    /\ IsOk(made)
    /\ made.doms[Len(made.doms) - 2].name = "nexus"
    /\ made.doms[Len(made.doms) - 2].seq = <<"A","A","C","C","C","U","A","G","U","C","C","G","U">>

\* fold_upper_stem(4, target=None), every other parameter at its default.
UpperStem4NoTarget ==
    /\ madeCall.f = "fold_upper_stem"
    /\ MadeBound
    /\ MadeArgs = <<IntV(4), IntV(0), IntV(0), IntV(1), StrV(<<"t","h","e","o">>), NoneV>>

\* C4 as written: fold_upper_stem(4, target=None) has the sequence
\* GUUUUAGAAUACCAGCC.
UpperStemFixtureAsWritten ==
    UpperStem4NoTarget =>
        (IsOk(made) /\ ConstructSeq(made) = <<"G","U","U","U","U","A","G","A","A","U","A","C","C","A","G","C","C">>)

\* C4: fold_upper_stem(4, target=None) is the first 12 bases of the stem,
\* the theophylline aptamer, the stem from base 16 on, then the nexus,
\* hairpins and tail: the aptamer replaces stem[12:16].
UpperStemFixture ==
    UpperStem4NoTarget =>
        /\ IsOk(made)
        /\ ConstructSeq(made) =
               <<"G","U","U","U","U","A","G","A","G","C","U","A">> \o <<"A","U","A","C","C","A","G","C","C","G","A","A","A","G","G","C","C","C","U","U","G","G","C","A","G">> \o <<"U","A","G","C","A","A","G","U","U","A","A","A","A","U">>
               \o <<"A","A","G","G","C","U","A","G","U","C","C","G","U">> \o <<"U","A","U","C","A","A","C","U","U","G","A","A","A","A","A","G","U","G","G","C","A","C","C","G","A","G","U","C","G","G","U","G","C">> \o <<"U","U","U","U","U","U">>
        /\ made.doms[1].seq = SubSeq(WT_SEQ, 1, 12)
        /\ DomainSeq(made.doms, "stem") =
               SubSeq(WT_SEQ, 1, 12) \o <<"A","U","A","C","C","A","G","C","C","G","A","A","A","G","G","C","C","C","U","U","G","G","C","A","G">>
               \o SubSeq(WT_SEQ, 17, 30)

UpperStem4Made ==
    /\ UpperStem4NoTarget
    /\ IsOk(made)
    /\ Len(ConstructSeq(made)) = 103

\* The name of a token list in the function-call form, the reference syntax.
CallForm(tokens) == Written(tokens, "call")

\* The largest N each stem design accepts.
StemLimit(abbr) == IF abbr = <<"u","s">> THEN 4 ELSE 6

\* C5: delimiter equivalence. A name of us or ls with one or two arguments,
\* written with commas and parentheses (with or without a space after the
\* comma), spaces, slashes, dashes or underscores, parses to the outcome of
\* its function-call form: the same sequence, or the same error.
DelimiterEquivalence ==
    \A toks \in StemTokens, syn \in Syntaxes :
        (text = Written(toks, syn) /\ parsed.status # "none") =>
            LET ref == from_name(CallForm(toks))
            IN  /\ parsed.status = ref.status
                /\ ConstructSeq(parsed) = ConstructSeq(ref)
                /\ IsOk(parsed) <=> ParseNat(toks[2]) <= StemLimit(toks[1])

UnderscoreParsed ==
    /\ text = <<"u","s","_","4","_","0">>
    /\ IsOk(parsed)
    /\ ConstructSeq(parsed) = ConstructSeq(from_name(<<"u","s","(","4",",","0",")">>))

\* C6: default-argument trimming. fold_upper_stem(N) and
\* fold_upper_stem(N, 0) carry the same name us(N), as make_name('us', N, 0)
\* is make_name('us', N) (likewise ls), and the names us(N) and us(N,0)
\* parse to the same sequence for N in 0..4, ls(N) and ls(N,0) for N in 0..6.
DefaultTrimming ==
    /\ \A a \in {<<"u","s">>, <<"l","s">>} :
        (/\ IsAbbreviation(a)
         /\ madeCall.f = Resolve(a)
         /\ IsOk(made)
         /\ Len(madeCall.pos) \in {1, 2}
         /\ Len(madeCall.pos) = 2 => madeCall.pos[2] = IntV(0)) =>
            /\ made.name = a \o <<"(">> \o NatStr(madeCall.pos[1].i) \o <<")">>
            /\ made.name = make_name(a, <<madeCall.pos[1]>>)
            /\ made.name = make_name(a, <<madeCall.pos[1], IntV(0)>>)
    /\ \A a \in {<<"u","s">>, <<"l","s">>}, n \in 0..MaxN :
        (/\ n <= StemLimit(a)
         /\ parsed.status # "none"
         /\ text \in {CallForm(<<a, NatStr(n)>>), CallForm(<<a, NatStr(n), <<"0">>>>)}) =>
            /\ IsOk(parsed)
            /\ ConstructSeq(parsed) = ConstructSeq(from_name(CallForm(<<a, NatStr(n)>>)))
            /\ ConstructSeq(parsed) =
                   ConstructSeq(from_name(CallForm(<<a, NatStr(n), <<"0">>>>)))

ExplicitDefaultParsed ==
    /\ text = <<"u","s","(","4",",","0",")">>
    /\ IsOk(parsed)
    /\ parsed.name = <<"u","s","(","4",")">>

\* The abbreviation table as the specification lists it, with the function
\* each abbreviation stands for.
ListedTable ==
    { <<<<"w","t">>, "wt_sgrna">>, <<<<"u","s">>, "fold_upper_stem">>,
      <<<<"l","s">>, "fold_lower_stem">>, <<<<"n","x">>, "fold_nexus">>,
      <<<<"n","x","x">>, "fold_nexus_2">>, <<<<"f","h">>, "fold_hairpin">>,
      <<<<"h","p">>, "replace_hairpins">>, <<<<"i","d">>, "induce_dimerization">>,
      <<<<"s","b">>, "serpentine_bulge">>, <<<<"s","l">>, "serpentine_lower_stem">>,
      <<<<"s","l","x">>, "serpentine_lower_stem_around_nexus">>,
      <<<<"s","h">>, "serpentine_hairpin">>, <<<<"c","b">>, "circle_bulge">>,
      <<<<"c","b","c">>, "circle_bulge_combo">>, <<<<"c","l">>, "circle_lower_stem">>,
      <<<<"c","h">>, "circle_hairpin">>, <<<<"h","u">>, "hammerhead_upper_stem">>,
      <<<<"h","x">>, "hammerhead_nexus">>, <<<<"h","h">>, "hammerhead_hairpin">> }

\* Every name designs.py binds at its end.
BoundNames == BareNames

\* C7: from_name raises ValueError on the empty string and on a name whose
\* abbreviation the table does not bind; every abbreviation of the table
\* resolves to its catalog function, so that the abbreviation alone parses
\* to what the function gives when called without arguments.
UnknownDesign ==
    parsed.status # "none" =>
        /\ text = <<>> => parsed.status = "ValueError"
        /\ (Tokens(text) # <<>> /\ Tokens(text)[1] \notin BoundNames \cup LigandPrefixes)
               => parsed.status = "ValueError"
        /\ \A p \in ListedTable :
               /\ IsAbbreviation(p[1])
               /\ Resolve(p[1]) = p[2]
               /\ text = p[1] => parsed = Call(p[2], <<>>, NoKw)

UnknownRejected ==
    /\ text = <<"n","o","s","u","c","h","d","e","s","i","g","n">>
    /\ parsed.status = "ValueError"

\* The designs parsed with a ligand prefix.
PrefixedDesigns == {<<"c","b">>, <<"s","l">>, <<"s","l","x">>, <<"c","l">>, <<"f","h","(","1",",","0",")">>, <<"n","x">>, <<"u","s","(","4",")">>}

\* from_name('cb') as the test suite gives it, around the aptamer.
CB_HEAD == <<"G","G","G","G","C","C","A","C","T","A","G","G","G","A","C","A","G","G","A","T">> \o <<"G","U","U","U","U","A","A","C","U","U">>

CB_TAIL ==
    <<"A","A","G","U","A","A","G","U","U","A","A","A","A","U">> \o <<"A","A","G","G","C","U","A","G","U","C","C","G","U">>
    \o <<"U","A","U","C","A","A","C","U","U","G","A","A","A","A","A","G","U","G","G","C","A","C","C","G","A","G","U","C","G","G","U","G","C">> \o <<"U","U","U","U","U","U">>

\* C8: a ligand prefix selects the ligand and nothing else. theo/<design>
\* parses to the design with its default ligand, tet/<design> to the design
\* called with ligand='tet'; for cb the two differ in the aptamer only.
LigandPrefix ==
    /\ \A d \in PrefixedDesigns :
        LET fn == Resolve(Tokens(d)[1])
            args == [k \in 1..(Len(Tokens(d)) - 1) |-> Coerce(Tokens(d)[k + 1])]
        IN  /\ text = <<"t","h","e","o","/">> \o d =>
                (IsOk(parsed) /\ parsed = Call(fn, args, NoKw))
            /\ text = <<"t","e","t","/">> \o d =>
                (/\ IsOk(parsed)
                 /\ parsed = Call(fn, args, [NoKw EXCEPT !.ligand = StrV(<<"t","e","t">>)]))
    /\ text = <<"t","h","e","o","/","c","b">> =>
        ConstructSeq(parsed) = CB_HEAD \o Concat(AptamerPieces(<<"t","h","e","o">>)) \o CB_TAIL
    /\ text = <<"t","e","t","/","c","b">> =>
        /\ ConstructSeq(parsed) = CB_HEAD \o Concat(AptamerPieces(<<"t","e","t">>)) \o CB_TAIL
        /\ parsed.name = <<"c","b">>

TetPrefixParsed ==
    /\ text = <<"t","e","t","/","c","b">>
    /\ IsOk(parsed)
    /\ ConstructSeq(parsed) # ConstructSeq(from_name(<<"c","b">>))

\* The raw strings constructs are compared with.
RawStrings == {WT_SEQ, <<>>, <<"G","U","U","U","U","A","G","A","A","U","A","C","C","A","G","C","C">>}

StemRangeChecked ==
    /\ \A a \in {<<"u","s">>, <<"l","s">>} :
        (madeCall.f = Resolve(a) /\ MadeBound) =>
            LET N == MadeArgs[1].i
            IN  /\ ~(0 <= N /\ N <= StemLimit(a)) =>
                    (made.status = "ValueError" /\ made.doms = <<>>)
                /\ (0 <= N /\ N <= StemLimit(a) /\ Len(madeCall.pos) = 1) => IsOk(made)
                /\ (0 <= N /\ N <= StemLimit(a) /\ ~IsInt(MadeArgs[2]))
                       => made.status \notin {"ok", "ValueError"}
    /\ \A a \in {<<"u","s">>, <<"l","s">>}, n \in 0..MaxN :
        (text = CallForm(<<a, NatStr(n)>>) /\ parsed.status # "none") =>
            parsed.status = IF n <= StemLimit(a) THEN "ok" ELSE "ValueError"

OutOfRangeRejected ==
    /\ madeCall.f = "fold_upper_stem"
    /\ MadeBound
    /\ MadeArgs[1] = IntV(5)
    /\ ~IsInt(MadeArgs[2])
    /\ made.status = "ValueError"

\* C11: fold_hairpin(H, N) raises ValueError exactly when H is not 1 or 2
\* or N is outside 0..4 (H = 1) or 0..6 (H = 2); an accepted call gives the
\* wildtype with the aptamer insert in place of hairpins[5+N:17-N] (H = 1)
\* or hairpins[18+N:33-N] (H = 2).
HairpinChecked ==
    (madeCall.f = "fold_hairpin" /\ MadeBound /\ MadeArgs[3].i >= 1) =>
        LET H == MadeArgs[1].i
            N == MadeArgs[2].i
            bad == H \notin {1, 2} \/ N < 0 \/ N > (IF H = 1 THEN 4 ELSE 6)
            wt == ConstructSeq(wt_sgrna(MadeArgs[5]))
            start == DomainStart(wt_sgrna(MadeArgs[5]).doms, "hairpins")
            a == IF H = 1 THEN 5 + N ELSE 18 + N
            b == IF H = 1 THEN 17 - N ELSE 33 - N
            insert == aptamer_insert(MadeArgs[4], <<IntV(0), IntV(0)>>, IntV(0),
                                     UUUCCC, MadeArgs[3])
        IN  /\ (made.status = "ValueError") <=> bad
            /\ ~bad =>
                /\ IsOk(made)
                /\ ConstructSeq(made) =
                       SubSeq(wt, 1, start + a) \o ConstructSeq(insert)
                       \o SubSeq(wt, start + b + 1, Len(wt))
                /\ (MadeArgs[3] = IntV(1) /\ MadeArgs[4] = StrV(<<"t","h","e","o">>)) =>
                       ConstructSeq(insert) = <<"A","U","A","C","C","A","G","C","C","G","A","A","A","G","G","C","C","C","U","U","G","G","C","A","G">>

HairpinMade ==
    /\ madeCall.f = "fold_hairpin"
    /\ MadeBound
    /\ MadeArgs[1] = IntV(2)
    /\ MadeArgs[2] = IntV(6)
    /\ IsOk(made)

\* C12: serpentine_bulge raises ValueError for every N < 2 and accepts
\* every N >= 2; serpentine_hairpin raises ValueError for every N outside
\* 4..14 and accepts every N in 4..14.
SerpentineRangeChecked ==
    /\ (madeCall.f = "serpentine_bulge" /\ MadeBound) =>
        /\ MadeArgs[1].i < 2 => (made.status = "ValueError" /\ made.doms = <<>>)
        /\ (MadeArgs[1].i >= 2 /\ MadeArgs[3].i >= 1) => IsOk(made)
    /\ (madeCall.f = "serpentine_hairpin" /\ MadeBound) =>
        /\ ~(4 <= MadeArgs[1].i /\ MadeArgs[1].i <= 14)
               => (made.status = "ValueError" /\ made.doms = <<>>)
        /\ (4 <= MadeArgs[1].i /\ MadeArgs[1].i <= 14 /\ MadeArgs[3].i >= 1)
               => IsOk(made)

BulgeOfOneRejected ==
    /\ madeCall.f = "serpentine_bulge"
    /\ MadeBound
    /\ MadeArgs[1] = IntV(1)
    /\ made.status = "ValueError"

\* C13: fold_nexus_2(N, M, splitter_len, num_aptamers) raises ValueError
\* exactly when N is outside 0..4, M is outside 0..5, splitter_len is in
\* 1..4 or num_aptamers is below 1; splitter_len 0 and 5 or more pass.
Nexus2Checked ==
    (madeCall.f = "fold_nexus_2" /\ MadeBound) =>
        LET N == MadeArgs[1].i
            M == MadeArgs[2].i
            splitter_len == MadeArgs[3].i
            num_aptamers == MadeArgs[4].i
            bad == \/ N < 0 \/ N > 4
                   \/ M < 0 \/ M > 5
                   \/ (0 < splitter_len /\ splitter_len <= 4)
                   \/ num_aptamers < 1
        IN  /\ (made.status = "ValueError") <=> bad
            /\ ~bad => IsOk(made)

LongSplitterAccepted ==
    /\ madeCall.f = "fold_nexus_2"
    /\ MadeBound
    /\ MadeArgs[3] = IntV(5)
    /\ MadeArgs[4].i >= 1
    /\ IsOk(made)

\* C14: induce_dimerization(half, N) raises ValueError and returns no
\* construct whenever str(half) is neither '5' nor '3', whenever N is no
\* integer in any form, and whenever int(N) is outside 0..4.
DimerizationChecked ==
    (madeCall.f = "induce_dimerization" /\ MadeBound) =>
        LET half == MadeArgs[1]
            N == MadeArgs[2]
            badHalf == PyStr(half) \notin {<<"5">>, <<"3">>}
            noInt == IsStr(N) /\ ~AllDigits(N.s)
            n == IF IsInt(N) THEN N.i ELSE ParseNat(N.s)
            bad == badHalf \/ noInt \/ n < 0 \/ n > 4
        IN  /\ bad => (made.status = "ValueError" /\ made.doms = <<>>)
            /\ ~bad => IsOk(made)

BadHalfRejected ==
    /\ madeCall.f = "induce_dimerization"
    /\ MadeBound
    /\ MadeArgs[1] = StrV(<<"h","e","l","l","o">>)
    /\ MadeArgs[2] = IntV(0)
    /\ made.status = "ValueError"

\* C15: circle_bulge_combo with a combo_strategy other than 'slx' and 'sh'
\* raises ValueError, and with 'sh' and no combo_arg it raises ValueError.
UnsupportedStrategyRejected ==
    (madeCall.f = "circle_bulge_combo" /\ MadeBound) =>
        /\ MadeArgs[2] \notin {StrV(<<"s","l","x">>), StrV(<<"s","h">>)} => made.status = "ValueError"
        /\ (MadeArgs[2] = StrV(<<"s","h">>) /\ MadeArgs[3] = NoneV) => made.status = "ValueError"

\* Some domain of the insert has the name of a domain of the host.
Collides(host, insert) ==
    \E i \in 1..Len(host.doms), j \in 1..Len(insert.doms) :
        host.doms[i].name = insert.doms[j].name

\* C16: an attach whose insert carries a domain name the host already holds
\* raises ValueError: circle_bulge_combo with 'sh' attaches a serpentine
\* insert with 'on' and 'switch' domains to a circle bulge that holds 'on'
\* and 'switch' domains, and so fails.
CollidingAttachRejected ==
    (/\ madeCall.f = "circle_bulge_combo"
     /\ MadeBound
     /\ MadeArgs[2] = StrV(<<"s","h">>)
     /\ IsInt(MadeArgs[3])
     /\ 4 <= MadeArgs[3].i /\ MadeArgs[3].i <= 14
     /\ MadeArgs[4].i >= 1) =>
        LET host == circle_bulge(MadeArgs[1], IntV(1), StrV(<<"t","h","e","o">>), StrV(<<"a","a","v","s">>))
            insert == serpentine_insert(MadeArgs[5],
                          PySlice(ConstructSeq(wt_sgrna(NoneV)), 44 - MadeArgs[3].i, 44),
                          "5", StrV(<<>>), <<"A","U","C","A">>, MadeArgs[4])
        IN  Collides(host, insert) => made.status = "ValueError"

\* The second construct a script obtains is the one from_name gives on its
\* own, and the first is still the one its call gave.
Independent ==
    /\ parsed.status # "none" => parsed = from_name(text)
    /\ madeCall.f # "" => made = Call(madeCall.f, madeCall.pos, madeCall.kw)

RnaAlphabet ==
    IsOk(made) =>
        \A i \in 1..Len(ConstructSeq(made)) :
            ConstructSeq(made)[i] \in {"A", "U", "G", "C", "N"}

\* The random-bulge names of the test suite.
RandomBulgePairs == {<<4, 8>>, <<5, 7>>, <<6, 6>>}

\* C19: from_name resolves rb(N,M) to the spacer, GUUUUA, N times 'N', the
\* theophylline aptamer, M times 'N', UAAAAU, the nexus, the hairpins and
\* the tail, for (N, M) = (4, 8), (5, 7), (6, 6).
RandomBulgeResolved ==
    \A p \in RandomBulgePairs :
        (/\ text = CallForm(<<<<"r","b">>, NatStr(p[1]), NatStr(p[2])>>)
         /\ parsed.status # "none") =>
            /\ IsOk(parsed)
            /\ ConstructSeq(parsed) =
                   <<"G","G","G","G","C","C","A","C","T","A","G","G","G","A","C","A","G","G","A","T">> \o <<"G","U","U","U","U","A">> \o [k \in 1..p[1] |-> "N"]
                   \o <<"A","U","A","C","C","A","G","C","C","G","A","A","A","G","G","C","C","C","U","U","G","G","C","A","G">> \o [k \in 1..p[2] |-> "N"]
                   \o <<"U","A","A","A","A","U">> \o <<"A","A","G","G","C","U","A","G","U","C","C","G","U">>
                   \o <<"U","A","U","C","A","A","C","U","U","G","A","A","A","A","A","G","U","G","G","C","A","C","C","G","A","G","U","C","G","G","U","G","C">> \o <<"U","U","U","U","U","U">>

\* C20: Domain.mutate on a domain that is not mutable raises StateError and
\* leaves the sequence as it was; on a mutable domain it raises IndexError
\* for a position past the end and otherwise changes the base at the
\* position and no other.  dead_sgrna mutates its nexus while it is mutable,
\* so that both mutations are made, and returns it not mutable.
MutateGuarded ==
    /\ mutated.status # "none" =>
        LET key == mutateCall.key
            position == mutateCall.position
            d == made.doms[FirstPiece(made, key)]
            at == DomainStart(made.doms, key) + position + 1
        IN  /\ ~d.mutable
            /\ ~mutateCall.open =>
                /\ mutated.status = "StateError"
                /\ ConstructSeq(made) =
                       ConstructSeq(Call(madeCall.f, madeCall.pos, madeCall.kw))
            /\ (mutateCall.open /\ position >= Len(d.seq)) =>
                mutated.status = "IndexError"
            /\ (mutateCall.open /\ position < Len(d.seq)) =>
                /\ IsOk(mutated)
                /\ ConstructSeq(mutated) =
                       [ConstructSeq(made) EXCEPT ![at] = mutateCall.base]
    /\ (madeCall.f = "dead_sgrna" /\ MadeBound) =>
        /\ IsOk(made)
        /\ \A k \in 1..Len(made.doms) : ~made.doms[k].mutable
        /\ SubSeq(DomainSeq(made.doms, "nexus"), 3, 4) = <<"C", "C">>

ClosedDomainKept ==
    /\ mutateCall.key = "nexus"
    /\ ~mutateCall.open
    /\ mutated.status = "StateError"

\* The constructs a script holds.
Held == {c \in {made, parsed, mutated} : IsOk(c)}

\* The annotation of a piece is empty or as long as the piece.
FoldFits(d) == d.fold = <<>> \/ Len(d.fold) = Len(d.seq)

LinkOf(L) == [k \in 1..L |-> <<"U","U","U","C","C","C">>[((k - 1) % 6) + 1]]

\* The spacer a target stands for in the test suite; none for None.
SpacerOf(target) == IF target = NoneV THEN <<>> ELSE <<"G","G","G","G","C","C","A","C","T","A","G","G","G","A","C","A","G","G","A","T">>

\* C22: attach keeps the 5' material up to pos_a and the 3' material from
\* pos_b on and discards what lies between. For N in 0..4 and a linker of
\* L >= 0 bases (no splitter, one theophylline aptamer),
\* fold_upper_stem(N, L, target=T) is spacer(T), stem[0:8+N], the linker,
\* the aptamer, the linker, stem[20-N:30], nexus, hairpins and tail.
UpperStemSplice ==
    (/\ madeCall.f = "fold_upper_stem"
     /\ MadeBound
     /\ 0 <= MadeArgs[1].i /\ MadeArgs[1].i <= 4
     /\ IsInt(MadeArgs[2])
     /\ MadeArgs[3] = IntV(0)
     /\ MadeArgs[4] = IntV(1)
     /\ MadeArgs[5] = StrV(<<"t","h","e","o">>)) =>
        LET N == MadeArgs[1].i
            L == MadeArgs[2].i
        IN  /\ IsOk(made)
            /\ ConstructSeq(made) =
                   SpacerOf(MadeArgs[6]) \o SubSeq(WT_SEQ, 1, 8 + N) \o LinkOf(L)
                   \o <<"A","U","A","C","C","A","G","C","C","G","A","A","A","G","G","C","C","C","U","U","G","G","C","A","G">> \o LinkOf(L)
                   \o SubSeq(WT_SEQ, 20 - N + 1, 30) \o SubSeq(WT_SEQ, 31, Len(WT_SEQ))

UpperStemLinked ==
    /\ madeCall.f = "fold_upper_stem"
    /\ MadeBound
    /\ MadeArgs[1] = IntV(2)
    /\ MadeArgs[2] = IntV(7)
    /\ MadeArgs[6] = NoneV
    /\ IsOk(made)
    /\ Len(ConstructSeq(made)) = 10 + 7 + 25 + 7 + 12 + 52

\* k theophylline aptamers nested: the 5' half k times, one splitter of the
\* requested length (the natural GAAA for 0), the 3' half k times.
NestedAptamers(k, splitter_len) ==
    Concat([j \in 1..k |-> <<"A","U","A","C","C","A","G","C","C">>])
    \o (IF splitter_len = 0 THEN <<"G","A","A","A">> ELSE LinkOf(splitter_len))
    \o Concat([j \in 1..k |-> <<"G","G","C","C","C","U","U","G","G","C","A","G">>])

AroundNexusCall ==
    /\ madeCall.f = "serpentine_lower_stem_around_nexus"
    /\ MadeBound
    /\ MadeArgs[2].i >= 1
    /\ MadeArgs[3] = StrV(<<"t","h","e","o">>)

\* The 3' half of induce_dimerization, N in range.
ThreePrimeHalfCall ==
    /\ madeCall.f = "induce_dimerization"
    /\ MadeBound
    /\ PyStr(MadeArgs[1]) = <<"3">>
    /\ IsInt(MadeArgs[2])
    /\ 0 <= MadeArgs[2].i /\ MadeArgs[2].i <= 4
    /\ MadeArgs[4] = StrV(<<"t","h","e","o">>)

\* The 5' half of induce_dimerization, N in range.
FivePrimeHalfCall ==
    /\ madeCall.f = "induce_dimerization"
    /\ MadeBound
    /\ PyStr(MadeArgs[1]) = <<"5">>
    /\ IsInt(MadeArgs[2])
    /\ 0 <= MadeArgs[2].i /\ MadeArgs[2].i <= 4
    /\ MadeArgs[4] = StrV(<<"t","h","e","o">>)

\* The 'on' strand of the switch on GUUAUC, as the test suite has it.
OnStrand(tuning_strategy) ==
    IF tuning_strategy = StrV(<<"w","o">>) THEN <<"G","U","U","G","U","C">> ELSE <<"G","U","U","A","U","C">>

\* C24 as written: '...' is the end of the named domain on either side, so
\* that in serpentine_lower_stem_around_nexus and in the 3' half of
\* induce_dimerization, where '...' is pos_a, the whole stem is kept 5' of
\* the insert.
EllipsisIsEnd ==
    (AroundNexusCall \/ ThreePrimeHalfCall) =>
        /\ IsOk(made)
        /\ LET target == IF madeCall.f = "induce_dimerization"
                          THEN MadeArgs[3] ELSE MadeArgs[4]
               kept == SpacerOf(target) \o SubSeq(WT_SEQ, 1, 30)
           IN  /\ Len(ConstructSeq(made)) >= Len(kept)
               /\ SubSeq(ConstructSeq(made), 1, Len(kept)) = kept

\* C24: '...' is resolved when attach is called, to the start of the named
\* domain as pos_a and to its end, its current length, as pos_b. So
\* serpentine_lower_stem_around_nexus puts its insert in place of the whole
\* stem, the 3' half of induce_dimerization drops stem[0:20-N] and the 5'
\* half drops stem[8+N:30].
EllipsisBySide ==
    /\ AroundNexusCall =>
        /\ IsOk(made)
        /\ ConstructSeq(made) =
               SpacerOf(MadeArgs[4]) \o OnStrand(MadeArgs[1]) \o <<"G","A">>
               \o NestedAptamers(MadeArgs[2].i, 0) \o <<"A","A","G","U">> \o <<"G","A","U","A","A","C">>
               \o SubSeq(WT_SEQ, 31, Len(WT_SEQ))
    /\ ThreePrimeHalfCall =>
        /\ IsOk(made)
        /\ ConstructSeq(made) =
               SpacerOf(MadeArgs[3]) \o <<"G","G","C","C","C","U","U","G","G","C","A","G">>
               \o SubSeq(WT_SEQ, 20 - MadeArgs[2].i + 1, Len(WT_SEQ))
    /\ FivePrimeHalfCall =>
        /\ IsOk(made)
        /\ ConstructSeq(made) =
               SpacerOf(MadeArgs[3]) \o SubSeq(WT_SEQ, 1, 8 + MadeArgs[2].i)
               \o <<"A","U","A","C","C","A","G","C","C">>

WholeStemReplaced ==
    /\ AroundNexusCall
    /\ MadeArgs[4] = NoneV
    /\ IsOk(made)
    /\ SubSeq(ConstructSeq(made), 1, 8) = <<"G","U","U","A","U","C","G","A">>
    /\ Len(ConstructSeq(made)) = 8 + 25 + 10 + 52

\* C25: replace_hairpins(N), N >= 0, is the spacer, the stem, the nexus,
\* the first min(N, 33) bases of the hairpins, a linker of max(0, N - 33)
\* bases, the aptamer and the tail UUUUUU: up to 33 the hairpins are cut
\* short and there is no linker, beyond 33 the hairpins are whole and the
\* linker lies on the 5' side of the aptamer only.
HairpinsReplaced ==
    (/\ madeCall.f = "replace_hairpins"
     /\ MadeBound
     /\ MadeArgs[1].i >= 0
     /\ MadeArgs[2] = StrV(<<"t","h","e","o">>)) =>
        LET N == MadeArgs[1].i
        IN  /\ IsOk(made)
            /\ ConstructSeq(made) =
                   SpacerOf(MadeArgs[3]) \o SubSeq(WT_SEQ, 1, 43)
                   \o SubSeq(WT_SEQ, 44, 43 + Min(N, 33))
                   \o LinkOf(Max(0, N - 33))
                   \o <<"A","U","A","C","C","A","G","C","C","G","A","A","A","G","G","C","C","C","U","U","G","G","C","A","G">> \o <<"U","U","U","U","U","U">>

LinkerBeforeAptamer ==
    /\ madeCall.f = "replace_hairpins"
    /\ MadeBound
    /\ MadeArgs[1] = IntV(39)
    /\ IsOk(made)
    /\ DomainSeq(made.doms, "tail") = <<"U","U","U","U","U","U">>
    /\ Len(DomainSeq(made.doms, "hairpins")) = 33 + 6 + 25

\* circle_bulge(t), every other parameter at its default.
CircleBulgeOf(tuning_strategy) ==
    circle_bulge(tuning_strategy, IntV(1), StrV(<<"t","h","e","o">>), StrV(<<"a","a","v","s">>))

\* circle_bulge_combo(t, 'slx', c), c being 'wo', empty or left out.
ComboSlxCall ==
    /\ madeCall.f = "circle_bulge_combo"
    /\ MadeBound
    /\ MadeArgs[2] = StrV(<<"s","l","x">>)
    /\ MadeArgs[3] \in {NoneV, StrV(<<>>), StrV(<<"w","o">>)}

\* from_name('cbc/wo/slx/wo') as the test suite gives it.
CBC_SLX ==
    <<"G","G","G","G","C","C","A","C","T","A","G","G","G","A","C","A","G","G","A","T">> \o <<"G","U","U","G","U","C">> \o <<"A","C","U","U">>
    \o <<"A","U","A","C","C","A","G","C","C","G","A","A","A","G","G","C","C","C","U","U","G","G","C","A","G">> \o <<"A","G","G","U">> \o <<"A","A","G","U">> \o <<"G","A","U","A","A","C">>
    \o SubSeq(WT_SEQ, 31, Len(WT_SEQ))

\* C26: circle_bulge_combo(t, 'slx', c) differs from circle_bulge(t) in
\* the first six and the last six bases of the stem only, which are the
\* 'on' strand GUUGUC and the switch GAUAAC of the wobble-tuned switch on
\* GUUAUC; the stem keeps its length, and the spacer, the circle-bulge
\* insert, the nexus, the hairpins and the tail are those of circle_bulge(t).
ComboSlxFrame ==
    ComboSlxCall =>
        LET cb == CircleBulgeOf(MadeArgs[1])
            was == ConstructSeq(cb)
            now == ConstructSeq(made)
            off == DomainStart(cb.doms, "stem")
            L == DomainLen(cb.doms, "stem")
        IN  /\ IsOk(made)
            /\ Len(now) = Len(was)
            /\ DomainStart(made.doms, "stem") = off
            /\ DomainLen(made.doms, "stem") = L
            /\ \A i \in 1..Len(was) :
                now[i] = IF i \in (off + 1)..(off + 6) THEN <<"G","U","U","G","U","C">>[i - off]
                         ELSE IF i \in (off + L - 5)..(off + L)
                         THEN <<"G","A","U","A","A","C">>[i - (off + L - 6)]
                         ELSE was[i]
            /\ MadeArgs[1] = StrV(<<"w","o">>) => now = CBC_SLX

ComboSlxMade ==
    /\ ComboSlxCall
    /\ MadeArgs[1] = StrV(<<"w","o">>)
    /\ MadeArgs[3] = StrV(<<"w","o">>)
    /\ IsOk(made)
    /\ ConstructSeq(made) # ConstructSeq(CircleBulgeOf(MadeArgs[1]))
    /\ DomainSeq(made.doms, "nexus") = DomainSeq(CircleBulgeOf(MadeArgs[1]).doms, "nexus")

\* circle_bulge_combo(t, 'sh', N) with a whole number N and at least one
\* aptamer.
ComboShCall ==
    /\ madeCall.f = "circle_bulge_combo"
    /\ MadeBound
    /\ MadeArgs[2] = StrV(<<"s","h">>)
    /\ IsInt(MadeArgs[3])
    /\ MadeArgs[4].i >= 1

\* from_name('cbc/wo/sh/5') as the test suite gives it.
CBC_SH5 ==
    <<"G","G","G","G","C","C","A","C","T","A","G","G","G","A","C","A","G","G","A","T">> \o <<"G","U","U","U","U","A">> \o <<"A","C","U","U">>
    \o <<"A","U","A","C","C","A","G","C","C","G","A","A","A","G","G","C","C","C","U","U","G","G","C","A","G">> \o <<"A","G","G","U">> \o <<"A","A","G","U","U","A","A","A","A","U">>
    \o <<"A","A","G","G","C","U","A","G","U","C","C","G","U">> \o <<"U">> \o <<"A","U","C","A">> \o <<"A","A","C","G","G">>
    \o <<"A","U","A","C","C","A","G","C","C","G","A","A","A","G","G","C","C","C","U","U","G","G","C","A","G">> \o <<"C","C","G","U","U">> \o <<"G","G","C","A","C","C","G","A","G","U","C","G","G","U","G","C">>
    \o <<"U","U","U","U","U","U">>

\* C27: circle_bulge_combo(t, 'sh', N) succeeds for every N in 4..14; its
\* stem is the stem of circle_bulge(t) and its hairpins are the hairpins of
\* serpentine_hairpin(N) with the empty tuning strategy: hairpins[0:1],
\* AUCA, the switch, the aptamer, wt.seq[44-N:44] and hairpins[17:].
ComboShComposed ==
    (ComboShCall /\ 4 <= MadeArgs[3].i /\ MadeArgs[3].i <= 14) =>
        LET N == MadeArgs[3].i
            sh == serpentine_hairpin(MadeArgs[3], StrV(<<>>), MadeArgs[4],
                                     MadeArgs[5], MadeArgs[6])
            on == SubSeq(WT_SEQ, 44 - N + 1, 44)
        IN  /\ IsOk(made)
            /\ IsOk(sh)
            /\ DomainSeq(made.doms, "stem")
                   = DomainSeq(CircleBulgeOf(MadeArgs[1]).doms, "stem")
            /\ DomainSeq(made.doms, "hairpins") = DomainSeq(sh.doms, "hairpins")
            /\ MadeArgs[5] = StrV(<<"t","h","e","o">>) =>
                   DomainSeq(made.doms, "hairpins") =
                       SubSeq(WT_SEQ, 44, 44) \o <<"A","U","C","A">> \o reverse_complement(on)
                       \o NestedAptamers(MadeArgs[4].i, 0) \o on
                       \o SubSeq(WT_SEQ, 43 + 17 + 1, 43 + 33)
            /\ (/\ MadeArgs[1] = StrV(<<"w","o">>) /\ N = 5 /\ MadeArgs[4] = IntV(1)
                /\ MadeArgs[5] = StrV(<<"t","h","e","o">>)) => ConstructSeq(made) = CBC_SH5

ComboShMade ==
    /\ ComboShCall
    /\ MadeArgs[1] = StrV(<<"w","o">>)
    /\ MadeArgs[3] = IntV(14)
    /\ IsOk(made)
    /\ Len(DomainSeq(made.doms, "hairpins")) = 1 + 4 + 14 + 25 + 14 + 16

\* The designs that attach the aptamer at computed offsets.
OffsetDesigns ==
    {"fold_upper_stem", "fold_lower_stem", "fold_nexus_2", "fold_hairpin",
     "replace_hairpins"}

\* The arguments v pass the range tests of f (replace_hairpins has none:
\* any N >= 0).
Validated(f, v) ==
    CASE f = "fold_upper_stem" -> IsInt(v[1]) /\ 0 <= v[1].i /\ v[1].i <= 4
      [] f = "fold_lower_stem" -> IsInt(v[1]) /\ 0 <= v[1].i /\ v[1].i <= 6
      [] f = "fold_nexus_2" ->
            /\ IsInt(v[1]) /\ 0 <= v[1].i /\ v[1].i <= 4
            /\ IsInt(v[2]) /\ 0 <= v[2].i /\ v[2].i <= 5
            /\ IsInt(v[3]) /\ ~(0 < v[3].i /\ v[3].i <= 4)
            /\ IsInt(v[4]) /\ v[4].i >= 1
      [] f = "fold_hairpin" ->
            /\ v[1] \in {IntV(1), IntV(2)}
            /\ IsInt(v[2]) /\ 0 <= v[2].i
            /\ v[2].i <= (IF v[1] = IntV(1) THEN 4 ELSE 6)
      [] f = "replace_hairpins" -> IsInt(v[1]) /\ v[1].i >= 0
      [] OTHER -> FALSE

\* The domain and the two offsets f hands to attach, '...' as pos_b being
\* the length of the domain.
CutPoints(f, v) ==
    CASE f = "fold_upper_stem" -> <<"stem", 8 + v[1].i, 20 - v[1].i>>
      [] f = "fold_lower_stem" -> <<"stem", 0 + v[1].i, 30 - v[1].i>>
      [] f = "fold_nexus_2" -> <<"nexus", 2 + v[1].i, 11 - v[2].i>>
      [] f = "fold_hairpin" ->
            IF v[1] = IntV(1) THEN <<"hairpins", 5 + v[2].i, 17 - v[2].i>>
            ELSE <<"hairpins", 18 + v[2].i, 33 - v[2].i>>
      [] OTHER -> <<"hairpins", Min(v[1].i, 33), 33>>

\* The insert f attaches.
InsertOf(f, v) ==
    CASE f = "fold_upper_stem" -> aptamer_insert(v[5], <<v[2], v[2]>>, v[3], UUUCCC, v[4])
      [] f = "fold_lower_stem" -> aptamer_insert(v[4], <<v[2], v[2]>>, v[3], UUUCCC, IntV(1))
      [] f = "fold_nexus_2" -> aptamer_insert(v[5], <<IntV(0), IntV(0)>>, v[3], UUUCCC, v[4])
      [] f = "fold_hairpin" -> aptamer_insert(v[4], <<IntV(0), IntV(0)>>, IntV(0), UUUCCC, v[3])
      [] OTHER -> aptamer_insert(v[2], <<IntV(Max(0, v[1].i - 33)), IntV(0)>>, IntV(0),
                                 UUUCCC, IntV(1))

\* The lengths of the wildtype domains.
WildtypeLen(domain) ==
    CASE domain = "stem" -> 30
      [] domain = "nexus" -> 13
      [] OTHER -> 33

\* C28: whenever the arguments pass the range tests of fold_upper_stem,
\* fold_lower_stem, fold_nexus_2 or fold_hairpin, and for every N >= 0 in
\* replace_hairpins, the offsets handed to attach satisfy
\* 0 <= pos_a <= pos_b <= length of the wildtype domain (stem 30, nexus 13,
\* hairpins 33): attach accepts them, and the construct is the wildtype
\* with the bases between the offsets given up for the insert.
CutPointsInRange ==
    (madeCall.f \in OffsetDesigns /\ MadeBound /\ Validated(madeCall.f, MadeArgs)) =>
        LET cut == CutPoints(madeCall.f, MadeArgs)
            insert == InsertOf(madeCall.f, MadeArgs)
            wt == wt_sgrna(MadeArgs[Len(MadeArgs)])
        IN  /\ 0 <= cut[2]
            /\ cut[2] <= cut[3]
            /\ cut[3] <= WildtypeLen(cut[1])
            /\ DomainLen(wt.doms, cut[1]) = WildtypeLen(cut[1])
            /\ made.status # "ValueError"
            /\ IsOk(insert) =>
                /\ IsOk(made)
                /\ Len(ConstructSeq(made)) =
                       Len(ConstructSeq(wt)) - (cut[3] - cut[2]) + Len(ConstructSeq(insert))

TightestNexusCut ==
    /\ madeCall.f = "fold_nexus_2"
    /\ MadeBound
    /\ MadeArgs[1] = IntV(4)
    /\ MadeArgs[2] = IntV(5)
    /\ IsOk(made)
    /\ DomainSeq(made.doms, "nexus")
           = <<"A","A","G","G","C","U">> \o <<"A","U","A","C","C","A","G","C","C","G","A","A","A","G","G","C","C","C","U","U","G","G","C","A","G">> \o <<"A","G","U","C","C","G","U">>

\* C29: circle_bulge_combo honours its target, ligand and A: the result has
\* the spacer of the target given and none for target=None, and with 'sh'
\* its stem, which holds the circle-bulge aptamer block, is the stem of
\* circle_bulge(t, A, ligand, target).
ComboHonoursParameters ==
    (madeCall.f = "circle_bulge_combo" /\ MadeBound /\ IsOk(made)) =>
        LET cb == circle_bulge(MadeArgs[1], MadeArgs[4], MadeArgs[5], MadeArgs[6])
        IN  /\ IsOk(cb)
            /\ HasDomain(made.doms, "spacer") <=> MadeArgs[6] # NoneV
            /\ MadeArgs[6] # NoneV =>
                   DomainSeq(made.doms, "spacer") = ConstructSeq(spacer(MadeArgs[6]))
            /\ MadeArgs[2] = StrV(<<"s","h">>) =>
                   DomainSeq(made.doms, "stem") = DomainSeq(cb.doms, "stem")

\* C30: circle_bulge_combo with 'sh' raises ValueError for every combo_arg
\* outside 4..14, as serpentine_hairpin does for its N.
ComboShRangeChecked ==
    (/\ madeCall.f = "circle_bulge_combo"
     /\ MadeBound
     /\ MadeArgs[2] = StrV(<<"s","h">>)
     /\ IsInt(MadeArgs[3])
     /\ ~(4 <= MadeArgs[3].i /\ MadeArgs[3].i <= 14)) =>
        /\ made.status = "ValueError"
        /\ serpentine_hairpin(MadeArgs[3], StrV(<<>>), MadeArgs[4], MadeArgs[5],
                              MadeArgs[6]).status = "ValueError"

====
